---- MODULE Spec2Model ----
(***************************************************************************)
(* Verification model of the article-enhancement pipeline                  *)
(* (article-enhancement-automation): the retry executor (utils/retry.js),  *)
(* the content scraper (components/ContentScraper.js), the search-result   *)
(* filter and selection (components/GoogleSearcher.js) and the workflow    *)
(* orchestrator (index.js).                                                *)
(*                                                                         *)
(* The specifications share this module, one per component:                *)
(*   SpecRetry    - withRetry driven by an arbitrary operation             *)
(*   SpecScrape   - scrapeMultiple / scrapeArticle / cleanup               *)
(*   SpecSelect   - filterValidArticles / selectTopArticles                *)
(*   SpecWorkflow - execute / executeMultiple                              *)
(*   SpecSearch   - findSimilarArticles / searchGoogle                     *)
(*   SpecEnhance  - AIEnhancer.enhanceArticle / callGroqAPI                *)
(*   SpecGateway  - ArticleFetcher / ArticlePublisher backend calls        *)
(*   SpecExtract  - scrapeArticle: the two extraction strategies           *)
(*   SpecLatest   - fetchLatestArticle: handling of the response           *)
(*   SpecCompletion - enhanceArticle: title and content from the completion*)
(* The variables of the components a specification does not drive stay at  *)
(* their initial values.                                                   *)
(***************************************************************************)
EXTENDS Integers, Sequences, FiniteSets, TLC

VARIABLES
    \* ---- withRetry (utils/retry.js) ----
    r_pc,          \* "call" | "sleeping" | "returned" | "thrown"
    r_policy,      \* [maxRetries, shouldRetry, baseDelay, maxDelay] : the options
    r_attempt,     \* the loop variable `attempt` (0-based)
    r_calls,       \* number of invocations of fn so far
    r_sleeps,      \* number of sleeps started so far
    r_lastError,   \* the error of the last failed invocation (NoError if none)
    r_errors,      \* the errors of all failed invocations, in order
    r_delay,       \* the `delay` of the last sleep started (0 before the first)
    \* ---- ContentScraper (components/ContentScraper.js) ----
    s_pc,          \* scrapeMultiple / cleanup: "idle" | "running" | "pausing" |
                   \*   "done" | "closing_browser" | "cleaned"
    s_n,           \* urls.length; the URLs are 1..s_n
    s_concurrency, \* the `concurrency` argument
    s_i,           \* the loop variable `i` (0-based index of the group's first URL)
    s_results,     \* the `results` array
    s_failed,      \* the `errors` array (URLs of the failed extractions)
    s_groups,      \* number of groups started so far
    s_pauses,      \* number of inter-group pauses elapsed so far
    s_cleanups,    \* number of calls of cleanup() so far
    tasks,         \* per URL: the state of its scrapeArticle call
    b_current,     \* this.browser: 0 = null, otherwise the id of a launched browser
    b_open,        \* ids of the launched browsers that are still open
    b_launched,    \* number of browsers launched so far
    b_pages,       \* the URLs whose scrapeWithPuppeteer call holds an open page
    \* ---- GoogleSearcher (components/GoogleSearcher.js) ----
    q_pc,          \* "idle" | "raw" | "parsed" | "filtered" | "selected"
    q_raw,         \* the raw search results (rawResults)
    q_target,      \* targetCount
    q_parsed,      \* parsedResults
    q_filtered,    \* validArticles
    q_selected,    \* selectedArticles
    \* ---- ArticleEnhancementWorkflow and main (index.js) ----
    w_pc,          \* "idle" | "main" | "fetching" | "cleanup" | "returned" | "exited"
    w_count,       \* options.batchCount
    w_i,           \* executeMultiple's loop variable (0 in single-article mode)
    w_stats,       \* this.stats
    w_fetched,     \* what the backend answered to this run's fetch ("none" before)
    w_raised,      \* the error caught by execute's catch block (NoError if none)
    w_outcome,     \* how the last execute call settled: "none" | "summary" | "thrown"
    w_thrown,      \* the error the caller of execute received (NoError if none)
    w_cleaned,     \* this run's finally block has run cleanup()
    w_trace,       \* this run's stage events, in order
    w_results,     \* executeMultiple's `results` (number of summaries)
    w_failed,      \* executeMultiple's `errors` (article indices)
    w_exit,        \* process exit status: -1 while running
    w_options,     \* the options: publishMode, skipPublishing, testMode, continueOnError
    w_started,     \* number of execute calls made so far
    w_delays,      \* number of inter-run delays executeMultiple has waited
    w_tests,       \* testWorkflow: how the component tests settled so far
    \* ---- GoogleSearcher.findSimilarArticles / searchGoogle ----
    f_pc,          \* "idle" | "searching" | "returned" | "thrown"
    f_target,      \* targetCount
    f_attempt,     \* withRetry's loop variable for the search
    f_calls,       \* number of calls of performGoogleSearch so far
    f_answer,      \* what the search provider answered last ("none" before)
    f_out,         \* what findSimilarArticles returned or threw
    \* ---- AIEnhancer.enhanceArticle / callGroqAPI ----
    e_pc,          \* "idle" | "calling" | "returned" | "thrown"
    e_refs,        \* referenceArticles
    e_attempt,     \* withRetry's loop variable for the completion call
    e_calls,       \* number of requests to the completion endpoint so far
    e_answer,      \* what the completion endpoint answered last
    e_seen401,     \* the endpoint has answered 401 during this enhancement
    e_out,         \* what enhanceArticle returned or threw
    \* ---- ArticleFetcher / ArticlePublisher: one backend call ----
    p_pc,          \* "idle" | "calling" | "returned" | "thrown"
    p_op,          \* "fetchLatest" | "fetchById" | "publish" | "update"
    p_attempt,     \* withRetry's loop variable for the request
    p_calls,       \* number of requests sent to the backend so far
    p_answer,      \* what the backend answered last
    p_out,         \* what the gateway call returned or threw
    \* ---- ContentScraper.scrapeArticle: extraction of one URL ----
    x_pc,          \* "idle" | "static" | "rendered" | "returned" | "thrown"
    x_url,         \* the url argument
    x_max,         \* config.maxContentLength
    x_attempt,     \* withRetry's loop variable of the running strategy
    x_page,        \* the page the last successful load delivered
    x_out,         \* what scrapeArticle returned or threw
    x_staticCalls, \* number of calls of scrapeWithCheerio so far
    x_staticErr,   \* what the last failed call of scrapeWithCheerio threw
    \* ---- ArticleFetcher.fetchLatestArticle: handling of the response ----
    l_pc,          \* "idle" | "calling" | "returned" | "thrown"
    l_body,        \* response.data of the answered request
    l_out,         \* what fetchLatestArticle returned or threw
    \* ---- AIEnhancer.enhanceArticle: title and content from the completion ----
    c_pc,          \* "idle" | "calling" | "built"
    c_text,        \* the completion callGroqAPI returned, as its lines
    c_article      \* the title and content of the enhancedArticle object

retryVars == <<r_pc, r_policy, r_attempt, r_calls, r_sleeps, r_lastError, r_errors,
               r_delay>>

scrapeVars == <<s_pc, s_n, s_concurrency, s_i, s_results, s_failed, s_groups,
                s_pauses, s_cleanups, tasks, b_current, b_open, b_launched,
                b_pages>>

searchVars == <<q_pc, q_raw, q_target, q_parsed, q_filtered, q_selected>>

workflowVars == <<w_pc, w_count, w_i, w_stats, w_fetched, w_raised, w_outcome,
                  w_thrown, w_cleaned, w_trace, w_results, w_failed, w_exit,
                  w_options, w_started, w_delays, w_tests>>

findVars == <<f_pc, f_target, f_attempt, f_calls, f_answer, f_out>>

\* the variables of the components added after the first four
enhanceVars == <<e_pc, e_refs, e_attempt, e_calls, e_answer, e_seen401, e_out>>

gatewayVars == <<p_pc, p_op, p_attempt, p_calls, p_answer, p_out>>

extractVars == <<x_pc, x_url, x_max, x_attempt, x_page, x_out, x_staticCalls,
                 x_staticErr>>

latestVars == <<l_pc, l_body, l_out>>

completionVars == <<c_pc, c_text, c_article>>

laterVars == <<findVars, enhanceVars, gatewayVars, extractVars, latestVars,
               completionVars>>

vars == <<retryVars, scrapeVars, searchVars, workflowVars, laterVars>>

\* the variables each component leaves alone
exceptRetry == <<scrapeVars, searchVars, workflowVars, laterVars>>
exceptScrape == <<retryVars, searchVars, workflowVars, laterVars>>
exceptSearch == <<retryVars, scrapeVars, workflowVars, laterVars>>
exceptWorkflow == <<retryVars, scrapeVars, searchVars, laterVars>>
firstVars == <<retryVars, scrapeVars, searchVars, workflowVars>>
exceptFind == <<firstVars, enhanceVars, gatewayVars, extractVars, latestVars,
                 completionVars>>
exceptEnhance == <<firstVars, findVars, gatewayVars, extractVars, latestVars,
                 completionVars>>
exceptGateway == <<firstVars, findVars, enhanceVars, extractVars, latestVars,
                 completionVars>>
exceptExtract == <<firstVars, findVars, enhanceVars, gatewayVars, latestVars,
                 completionVars>>
exceptLatest == <<firstVars, findVars, enhanceVars, gatewayVars, extractVars,
                 completionVars>>
exceptCompletion == <<firstVars, findVars, enhanceVars, gatewayVars, extractVars,
                     latestVars>>

(***************************************************************************)
(* Errors.  An error is what the retry predicates look at: its `code`,     *)
(* the HTTP status of its `response` (0 when the error has no response)    *)
(* and its class name; `tag` stands for its message.                       *)
(***************************************************************************)
NoError == [name |-> "none", code |-> "none", status |-> 0, tag |-> "none"]

\* an axios error carrying a response with the given status
AxiosHttpError(s) == [name |-> "AxiosError", code |-> "ERR_BAD_RESPONSE", status |-> s, tag |-> "HTTP"]

\* an axios / node error without a response, carrying a network code
AxiosNetError(c) == [name |-> "AxiosError", code |-> c, status |-> 0, tag |-> c]

\* the application error classes: AppError sets `code` to the class code and
\* none of them carries a `response` with a status
NetworkError(t) == [name |-> "NetworkError", code |-> "NETWORK_ERROR", status |-> 0, tag |-> t]
ValidationError(t) == [name |-> "ValidationError", code |-> "VALIDATION_ERROR", status |-> 0, tag |-> t]
ScrapingError(t) == [name |-> "ScrapingError", code |-> "SCRAPING_ERROR", status |-> 0, tag |-> t]

\* a plain Error thrown by a library (puppeteer): no code, no response
PlainError(t) == [name |-> "Error", code |-> "none", status |-> 0, tag |-> t]

\* the errors the retry harness feeds to withRetry
HarnessErrors ==
    { AxiosHttpError(s) : s \in {400, 403, 404, 429, 500} }
    \cup { AxiosNetError(c) : c \in {"ECONNRESET", "ETIMEDOUT", "ECONNABORTED"} }
    \cup { NetworkError("ETIMEDOUT"), ValidationError("invalid") }

(***************************************************************************)
(* Retry predicates (retryConditions) and the default `() => true`.        *)
(***************************************************************************)
networkAndServerErrors(error) ==
    \/ error.code \in {"ECONNRESET", "ENOTFOUND", "ECONNREFUSED", "ETIMEDOUT"}
    \/ error.status >= 500
    \/ error.status = 429

allExceptClientErrors(error) ==
    ~ (error.status >= 400 /\ error.status < 500 /\ error.status # 429)

ShouldRetryNames == {"always", "networkAndServerErrors", "allExceptClientErrors"}

\* the predicate withRetry uses when the caller passes none: `() => true`
DefaultShouldRetry == "always"

shouldRetry(pred, error) ==
    CASE pred = "always" -> TRUE
      [] pred = "networkAndServerErrors" -> networkAndServerErrors(error)
      [] pred = "allExceptClientErrors" -> allExceptClientErrors(error)

(***************************************************************************)
(* The catch block of withRetry: what happens after invocation number      *)
(* attempt+1 failed with `error`.                                          *)
(***************************************************************************)
RetryDecisionOffByOne(attempt, maxRetries, pred, error) ==
    IF ~ shouldRetry(pred, error) THEN "rethrow"
    ELSE IF attempt + 1 >= maxRetries THEN "exhausted"
    ELSE "sleep"

RetryDecision(attempt, maxRetries, pred, error) ==
    IF ~ shouldRetry(pred, error) THEN "rethrow"
    ELSE IF attempt = maxRetries THEN "exhausted"
    ELSE "sleep"

\* bound of the harness on the configured maxRetries
MaxRetriesBound == 3

\* config.retryDelay, the default of baseDelay, and the default of maxDelay
DefaultRetryDelay == 2000

DefaultMaxDelay == 30000

\* the base delays of the harness: the default and a RETRY_DELAY large
\* enough for the cap to matter
BaseDelays == {DefaultRetryDelay, 10 * DefaultRetryDelay}

\* values of the jitter factor 0.5 + Math.random() * 0.5, as fractions
Jitters == { [num |-> 1, den |-> 2], [num |-> 3, den |-> 4], [num |-> 1, den |-> 1] }

RECURSIVE Pow2(_)
Pow2(n) == IF n = 0 THEN 1 ELSE 2 * Pow2(n - 1)

\* calculateBackoffDelay without the cap
calculateBackoffDelayUncapped(attempt, baseDelay, maxDelay, jitter) ==
    ((baseDelay * Pow2(attempt)) * jitter.num) \div jitter.den

calculateBackoffDelay(attempt, baseDelay, maxDelay, jitter) ==
    LET exponentialDelay == baseDelay * Pow2(attempt)
        jitteredDelay == (exponentialDelay * jitter.num) \div jitter.den
    IN  IF jitteredDelay < maxDelay THEN jitteredDelay ELSE maxDelay

\* retryScraping's maxRetries
ScrapingMaxRetries == 2

RetryIdle ==
    /\ r_pc = "idle"
    /\ r_policy = [maxRetries |-> 0, shouldRetry |-> "always",
                   baseDelay |-> DefaultRetryDelay, maxDelay |-> DefaultMaxDelay]
    /\ r_delay = 0
    /\ r_attempt = 0
    /\ r_calls = 0
    /\ r_sleeps = 0
    /\ r_lastError = NoError
    /\ r_errors = <<>>

RetryStart ==
    /\ r_pc = "call"
    /\ r_policy \in [maxRetries : 0..MaxRetriesBound, shouldRetry : ShouldRetryNames,
                     baseDelay : BaseDelays, maxDelay : {DefaultMaxDelay}]
    /\ r_delay = 0
    /\ r_attempt = 0
    /\ r_calls = 0
    /\ r_sleeps = 0
    /\ r_lastError = NoError
    /\ r_errors = <<>>

\* fn() resolves: withRetry returns its result
RetryInvokeOk ==
    /\ r_pc = "call"
    /\ r_calls' = r_calls + 1
    /\ r_pc' = "returned"
    /\ UNCHANGED <<r_policy, r_attempt, r_sleeps, r_lastError, r_errors, r_delay>>
    /\ UNCHANGED exceptRetry

\* fn() rejects with error e: the catch block decides; when it sleeps, the
\* delay is computed with the jitter drawn by Math.random()
RetryInvokeFail(e, jitter) ==
    /\ r_pc = "call"
    /\ r_calls' = r_calls + 1
    /\ r_lastError' = e
    /\ r_errors' = Append(r_errors, e)
    /\ LET d == RetryDecision(r_attempt, r_policy.maxRetries, r_policy.shouldRetry, e)
       IN  IF d = "sleep"
           THEN /\ r_pc' = "sleeping"
                /\ r_sleeps' = r_sleeps + 1
                /\ r_delay' = calculateBackoffDelay(r_attempt, r_policy.baseDelay,
                                                    r_policy.maxDelay, jitter)
           ELSE /\ r_pc' = "thrown"
                /\ r_sleeps' = r_sleeps
                /\ r_delay' = r_delay
    /\ UNCHANGED <<r_policy, r_attempt>>
    /\ UNCHANGED exceptRetry

\* the backoff sleep elapses: next iteration of the loop
RetrySleepDone ==
    /\ r_pc = "sleeping"
    /\ r_attempt' = r_attempt + 1
    /\ r_pc' = "call"
    /\ UNCHANGED <<r_policy, r_calls, r_sleeps, r_lastError, r_errors, r_delay>>
    /\ UNCHANGED exceptRetry

RetryNext ==
    \/ RetryInvokeOk
    \/ \E e \in HarnessErrors, jitter \in Jitters : RetryInvokeFail(e, jitter)
    \/ RetrySleepDone

(***************************************************************************)
(* ContentScraper: scrapeArticle per URL, scrapeMultiple, cleanup.         *)
(***************************************************************************)
\* bounds of the harness: length of the URL list, concurrency argument,
\* number of cleanup() calls after the batch
MaxUrls == 3
MaxConcurrency == 2
MaxCleanups == 2

Urls == 1..MaxUrls

NoOutcome == [kind |-> "none"]

\* the ExtractedContent object built by extractContent / scrapeWithPuppeteer
Content(u, m) == [kind |-> "content", url |-> u, method |-> m]

\* new ScrapingError(`Failed to scrape content from ${url}`, url,
\*                   `Cheerio: ${cheerioError.message}, Puppeteer: ${puppeteerError.message}`)
BothFailed(u, cheerioError, puppeteerError) ==
    [kind |-> "error", name |-> "ScrapingError", url |-> u,
     reason |-> <<cheerioError.tag, puppeteerError.tag>>]

IdleTask ==
    [pc |-> "pending", attempt |-> 0, cheerioErr |-> NoError,
     staticCalls |-> 0, renderCalls |-> 0, out |-> NoOutcome]

\* what the static fetch can answer when it does not yield valid content
StaticFailures == {"403", "404", "410", "500", "invalid"}

\* the error scrapeWithCheerio throws for each of them (its catch block)
StaticError(o) ==
    CASE o = "403" -> ScrapingError("BLOCKED")
      [] o = "404" -> ScrapingError("NOT_FOUND")
      [] o = "invalid" -> ValidationError("invalid")
      [] o = "410" -> AxiosHttpError(410)
      [] o = "500" -> AxiosHttpError(500)

\* what navigation + evaluation of an open page can yield
PageOutcomes == {"ok", "invalid", "navtimeout"}

\* the error scrapeWithPuppeteer throws for the failing ones
PageError(o) ==
    CASE o = "invalid" -> ValidationError("invalid")
      [] o = "navtimeout" -> NetworkError("ETIMEDOUT")

\* the tag scrapeWithPuppeteer puts on its result
RenderedMethod == "puppeteer"

StaticMethod == "cheerio"

\* batch = urls.slice(i, i + concurrency), as 1-based URL numbers
BatchTooWide(i, c, n) == { u \in 1..n : u > i /\ u <= i + c + 1 }

Batch(i, c, n) == { u \in 1..n : u > i /\ u <= i + c }

\* the guard of the inter-group delay: i + concurrency < urls.length
PauseNeeded(i, c, n) == i + c < n

Settled(t) == t.pc \in {"ok", "failed"}

InFlight(t) == t.pc \notin {"pending", "ok", "failed"}

\* start of scrapeWithPuppeteer: `if (!this.browser)` launch, else open a page
EnterRender(t, browser) ==
    [t EXCEPT !.renderCalls = @ + 1,
              !.pc = IF browser = 0 THEN "launching" ELSE "page"]

\* the first invocation of scrapeWithCheerio by scrapeArticle
StartTask(t) == [t EXCEPT !.pc = "static", !.staticCalls = 1]

\* catch (cheerioError) of scrapeArticle: which errors lead to the fallback
FallsBackNotBlocked(e) == e.name # "ScrapingError"

FallsBack(e) == TRUE

AfterStaticFailureEager(t, u, e, browser) ==
    EnterRender([t EXCEPT !.cheerioErr = e, !.attempt = 0], browser)

\* a static attempt failed with e: retry it, or fall back to Puppeteer
AfterStaticFailure(t, u, e, browser) ==
    IF RetryDecision(t.attempt, ScrapingMaxRetries, "allExceptClientErrors", e) = "sleep"
    THEN [t EXCEPT !.pc = "static_sleep"]
    ELSE IF FallsBack(e)
         THEN EnterRender([t EXCEPT !.cheerioErr = e, !.attempt = 0],
                          browser)
         ELSE [t EXCEPT !.pc = "failed", !.attempt = 0, !.cheerioErr = e,
                        !.out = [kind |-> "error", name |-> "ScrapingError", url |-> u,
                                 reason |-> <<e.tag>>]]

\* a rendered attempt failed with e: retry it, or give up with ScrapingError
AfterRenderFailure(t, u, e) ==
    IF RetryDecision(t.attempt, ScrapingMaxRetries, "allExceptClientErrors", e) = "sleep"
    THEN [t EXCEPT !.pc = "render_sleep"]
    ELSE [t EXCEPT !.pc = "failed", !.attempt = 0,
                   !.out = BothFailed(u, t.cheerioErr, e)]

\* the successes of a settled batch, in the order of the batch
RECURSIVE BatchSuccesses(_, _, _)
BatchSuccesses(ts, lo, hi) ==
    IF lo > hi THEN <<>>
    ELSE (IF ts[lo].pc = "ok" THEN <<ts[lo].out>> ELSE <<>>)
         \o BatchSuccesses(ts, lo + 1, hi)

RECURSIVE BatchFailures(_, _, _)
BatchFailures(ts, lo, hi) ==
    IF lo > hi THEN <<>>
    ELSE (IF ts[lo].pc = "failed" THEN <<lo>> ELSE <<>>)
         \o BatchFailures(ts, lo + 1, hi)

\* the successes `results.push` collects from batchResults
RECURSIVE CollectedAll(_, _, _)
CollectedAll(ts, lo, hi) ==
    IF lo > hi THEN <<>>
    ELSE <<IF ts[lo].pc = "ok" THEN ts[lo].out ELSE Content(lo, "none")>>
         \o CollectedAll(ts, lo + 1, hi)

Collected(ts, lo, hi) == BatchSuccesses(ts, lo, hi)

Min(a, b) == IF a < b THEN a ELSE b

\* after Promise.all the per-call state is gone: what is left of a call is
\* whether it succeeded (its entry went to `results` or to `errors`)
Forget(t) == [IdleTask EXCEPT !.pc = t.pc]

ScrapeIdle ==
    /\ s_pc = "idle"
    /\ s_n = 0
    /\ s_concurrency = 1
    /\ s_i = 0
    /\ s_results = <<>>
    /\ s_failed = <<>>
    /\ s_groups = 0
    /\ s_pauses = 0
    /\ s_cleanups = 0
    /\ tasks = [u \in Urls |-> IdleTask]
    /\ b_current = 0
    /\ b_open = {}
    /\ b_pages = {}
    /\ b_launched = 0

ScrapeInit ==
    /\ s_pc = "idle"
    /\ s_n \in 0..MaxUrls
    /\ s_concurrency \in 1..MaxConcurrency
    /\ s_i = 0
    /\ s_results = <<>>
    /\ s_failed = <<>>
    /\ s_groups = 0
    /\ s_pauses = 0
    /\ s_cleanups = 0
    /\ tasks = [u \in Urls |-> IdleTask]
    /\ b_current = 0
    /\ b_open = {}
    /\ b_pages = {}
    /\ b_launched = 0

\* batch.map(async url => scrapeArticle(url)) for the group starting at i:
\* every call of the group runs up to its first await (the HTTP request)
StartGroupFrom(ts, i) ==
    /\ s_i' = i
    /\ s_pc' = "running"
    /\ s_groups' = s_groups + 1
    /\ tasks' = [u \in Urls |->
                   IF u \in Batch(i, s_concurrency, s_n) THEN StartTask(ts[u])
                   ELSE ts[u]]

StartGroup(i) == StartGroupFrom(tasks, i)

\* scrapeMultiple(urls, concurrency) is called
ScrapeMultipleStart ==
    /\ s_pc = "idle"
    /\ IF s_n = 0
       THEN /\ s_pc' = "done"
            /\ UNCHANGED <<s_i, s_groups, tasks>>
       ELSE StartGroup(0)
    /\ UNCHANGED <<s_n, s_concurrency, s_results, s_failed, s_pauses, s_cleanups,
                   b_current, b_open, b_launched, b_pages>>
    /\ UNCHANGED exceptScrape

TaskFrame == UNCHANGED <<s_pc, s_n, s_concurrency, s_i, s_results, s_failed,
                         s_groups, s_pauses, s_cleanups>>

BrowserFrame == UNCHANGED <<b_current, b_open, b_launched, b_pages>>

\* the static fetch answers 200 with content that passes validateScrapedContent
StaticOk(u) ==
    /\ tasks[u].pc = "static"
    /\ tasks' = [tasks EXCEPT ![u] = [@ EXCEPT !.pc = "ok", !.attempt = 0,
                                               !.out = Content(u, StaticMethod)]]
    /\ TaskFrame /\ BrowserFrame
    /\ UNCHANGED exceptScrape

\* the static fetch fails (status, network error or validation failure)
StaticFail(u, o) ==
    /\ tasks[u].pc = "static"
    /\ tasks' = [tasks EXCEPT ![u] = AfterStaticFailure(@, u, StaticError(o), b_current)]
    /\ TaskFrame /\ BrowserFrame
    /\ UNCHANGED exceptScrape

\* the backoff sleep of the static retry loop elapses
StaticSleepDone(u) ==
    /\ tasks[u].pc = "static_sleep"
    /\ tasks' = [tasks EXCEPT ![u] = [@ EXCEPT !.pc = "static", !.attempt = @ + 1,
                                               !.staticCalls = @ + 1]]
    /\ TaskFrame /\ BrowserFrame
    /\ UNCHANGED exceptScrape

\* puppeteer.launch() resolves: this.browser = <new browser>, then newPage()
LaunchOk(u) ==
    /\ tasks[u].pc = "launching"
    /\ b_launched' = b_launched + 1
    /\ b_current' = b_launched + 1
    /\ b_open' = b_open \cup {b_launched + 1}
    /\ tasks' = [tasks EXCEPT ![u] = [@ EXCEPT !.pc = "page"]]
    /\ UNCHANGED b_pages
    /\ TaskFrame
    /\ UNCHANGED exceptScrape

\* puppeteer.launch() rejects
LaunchFail(u) ==
    /\ tasks[u].pc = "launching"
    /\ tasks' = [tasks EXCEPT ![u] = AfterRenderFailure(@, u, PlainError("launch"))]
    /\ TaskFrame /\ BrowserFrame
    /\ UNCHANGED exceptScrape

\* this.browser.newPage() resolves: the call holds an open page and enters
\* the inner try block
PageOpened(u) ==
    /\ tasks[u].pc = "page"
    /\ tasks' = [tasks EXCEPT ![u] = [@ EXCEPT !.pc = "navigating"]]
    /\ b_pages' = b_pages \cup {u}
    /\ UNCHANGED <<b_current, b_open, b_launched>>
    /\ TaskFrame
    /\ UNCHANGED exceptScrape

\* this.browser.newPage() rejects: no page was opened, the outer catch rethrows
PageOpenFail(u) ==
    /\ tasks[u].pc = "page"
    /\ tasks' = [tasks EXCEPT ![u] = AfterRenderFailure(@, u, PlainError("newPage"))]
    /\ TaskFrame /\ BrowserFrame
    /\ UNCHANGED exceptScrape

ClosesPageOnSuccessOnly(o) == o = "ok"

\* `finally { await page.close(); }`: the outcomes of the inner try block
\* after which page.close() is called
ClosesPage(o) == TRUE

\* navigation, settle delay, evaluation and validation end with outcome o;
\* the finally block awaits page.close(), whose rejection (the page's target
\* is already gone) replaces the try block's result or error
PageDone(u, o, closeOk) ==
    /\ tasks[u].pc = "navigating"
    /\ tasks' = [tasks EXCEPT ![u] =
                   IF ClosesPage(o) /\ ~ closeOk
                   THEN AfterRenderFailure(@, u, PlainError("close"))
                   ELSE IF o = "ok"
                   THEN [@ EXCEPT !.pc = "ok", !.attempt = 0,
                                  !.out = Content(u, RenderedMethod)]
                   ELSE AfterRenderFailure(@, u, PageError(o))]
    /\ b_pages' = IF ClosesPage(o) THEN b_pages \ {u} ELSE b_pages
    /\ UNCHANGED <<b_current, b_open, b_launched>>
    /\ TaskFrame
    /\ UNCHANGED exceptScrape

\* the backoff sleep of the rendered retry loop elapses
RenderSleepDone(u) ==
    /\ tasks[u].pc = "render_sleep"
    /\ tasks' = [tasks EXCEPT ![u] = EnterRender([@ EXCEPT !.attempt = @ + 1], b_current)]
    /\ TaskFrame /\ BrowserFrame
    /\ UNCHANGED exceptScrape

\* Promise.all(batchPromises) resolves: collect, then pause or go on
GroupSettled ==
    /\ s_pc = "running"
    /\ \A u \in Batch(s_i, s_concurrency, s_n) : Settled(tasks[u])
    /\ LET hi == Min(s_i + s_concurrency, s_n)
           collected == [u \in Urls |-> IF Settled(tasks[u]) THEN Forget(tasks[u])
                                       ELSE tasks[u]]
       IN  /\ s_results' = s_results \o Collected(tasks, s_i + 1, hi)
           /\ s_failed' = s_failed \o BatchFailures(tasks, s_i + 1, hi)
           /\ IF PauseNeeded(s_i, s_concurrency, s_n)
              THEN /\ s_pc' = "pausing"
                   /\ tasks' = collected
                   /\ UNCHANGED <<s_i, s_groups>>
              ELSE IF s_i + s_concurrency < s_n
                   THEN StartGroupFrom(collected, s_i + s_concurrency)
                   ELSE /\ s_pc' = "done"
                        /\ s_i' = s_i + s_concurrency
                        /\ tasks' = collected
                        /\ UNCHANGED s_groups
    /\ UNCHANGED <<s_n, s_concurrency, s_pauses, s_cleanups>>
    /\ BrowserFrame
    /\ UNCHANGED exceptScrape

\* the inter-group delay elapses: i += concurrency, next iteration
PauseDone ==
    /\ s_pc = "pausing"
    /\ s_pauses' = s_pauses + 1
    /\ StartGroup(s_i + s_concurrency)
    /\ UNCHANGED <<s_n, s_concurrency, s_results, s_failed, s_cleanups>>
    /\ BrowserFrame
    /\ UNCHANGED exceptScrape

\* cleanup() is called after the batch (and possibly again)
CleanupStart ==
    /\ s_pc \in {"done", "cleaned"}
    /\ s_cleanups < MaxCleanups
    /\ s_cleanups' = s_cleanups + 1
    /\ s_pc' = IF b_current # 0 THEN "closing_browser" ELSE "cleaned"
    /\ UNCHANGED <<s_n, s_concurrency, s_i, s_results, s_failed, s_groups, s_pauses, tasks>>
    /\ BrowserFrame
    /\ UNCHANGED exceptScrape

\* this.browser.close() resolves: this.browser = null
BrowserCloseOk ==
    /\ s_pc = "closing_browser"
    /\ b_open' = b_open \ {b_current}
    /\ b_current' = 0
    /\ s_pc' = "cleaned"
    /\ UNCHANGED <<s_n, s_concurrency, s_i, s_results, s_failed, s_groups, s_pauses,
                   s_cleanups, tasks, b_launched, b_pages>>
    /\ UNCHANGED exceptScrape

\* this.browser.close() rejects: logged, this.browser keeps its value; the
\* browser process may or may not have gone
BrowserCloseFail ==
    /\ s_pc = "closing_browser"
    /\ b_open' \in {b_open, b_open \ {b_current}}
    /\ s_pc' = "cleaned"
    /\ UNCHANGED <<s_n, s_concurrency, s_i, s_results, s_failed, s_groups, s_pauses,
                   s_cleanups, tasks, b_current, b_launched, b_pages>>
    /\ UNCHANGED exceptScrape

ScrapeNext ==
    \/ ScrapeMultipleStart
    \/ \E u \in Urls : StaticOk(u)
    \/ \E u \in Urls : \E o \in StaticFailures : StaticFail(u, o)
    \/ \E u \in Urls : StaticSleepDone(u)
    \/ \E u \in Urls : LaunchOk(u)
    \/ \E u \in Urls : LaunchFail(u)
    \/ \E u \in Urls : PageOpened(u)
    \/ \E u \in Urls : PageOpenFail(u)
    \/ \E u \in Urls : \E o \in PageOutcomes : \E closeOk \in BOOLEAN : PageDone(u, o, closeOk)
    \/ \E u \in Urls : RenderSleepDone(u)
    \/ GroupSettled
    \/ PauseDone
    \/ CleanupStart
    \/ BrowserCloseOk
    \/ BrowserCloseFail

(***************************************************************************)
(* GoogleSearcher: parseSearchResults, filterValidArticles,                *)
(* selectTopArticles.  Strings are sequences of characters; the scheme     *)
(* prefix of a URL is the single element "https://".                       *)
(***************************************************************************)
\* this.excludedDomains
excludedDomains ==
    << <<"y", "o", "u", "t", "u", "b", "e", ".", "c", "o", "m">>,
       <<"y", "o", "u", "t", "u", ".", "b", "e">>,
       <<"f", "a", "c", "e", "b", "o", "o", "k", ".", "c", "o", "m">>,
       <<"t", "w", "i", "t", "t", "e", "r", ".", "c", "o", "m">>,
       <<"x", ".", "c", "o", "m">>,
       <<"i", "n", "s", "t", "a", "g", "r", "a", "m", ".", "c", "o", "m">>,
       <<"l", "i", "n", "k", "e", "d", "i", "n", ".", "c", "o", "m">>,
       <<"p", "i", "n", "t", "e", "r", "e", "s", "t", ".", "c", "o", "m">>,
       <<"r", "e", "d", "d", "i", "t", ".", "c", "o", "m">>,
       <<"t", "i", "k", "t", "o", "k", ".", "c", "o", "m">>,
       <<"s", "n", "a", "p", "c", "h", "a", "t", ".", "c", "o", "m">>,
       <<"w", "i", "k", "i", "p", "e", "d", "i", "a", ".", "o", "r", "g">> >>

\* this.excludedExtensions
excludedExtensions ==
    << <<".", "p", "d", "f">>,
       <<".", "d", "o", "c">>,
       <<".", "d", "o", "c", "x">>,
       <<".", "p", "p", "t">>,
       <<".", "p", "p", "t", "x">>,
       <<".", "x", "l", "s">>,
       <<".", "x", "l", "s", "x">>,
       <<".", "z", "i", "p">>,
       <<".", "r", "a", "r">>,
       <<".", "m", "p", "4">>,
       <<".", "m", "p", "3">>,
       <<".", "a", "v", "i">>,
       <<".", "m", "o", "v">>,
       <<".", "j", "p", "g">>,
       <<".", "j", "p", "e", "g">>,
       <<".", "p", "n", "g">>,
       <<".", "g", "i", "f">> >>

\* the raw hits the search may return (the harness draws lists of them)
Catalogue ==
    << [url |-> <<"https://", "a", ".", "i", "o", "/", "p", "o", "s", "t">>,
        title |-> <<"C", "h", "a", "t", "b", "o", "t", "s", " ", "f", "o", "r", " ", "S", "M", "B", "s">>,
        snippet |-> <<>>],
       [url |-> <<"https://", "a", ".", "i", "o", "/", "m", "o", "r", "e">>,
        title |-> <<"C", "h", "a", "t", "b", "o", "t", "s", " ", "f", "o", "r", " ", "S", "M", "B", "s">>,
        snippet |-> <<>>],
       [url |-> <<"https://", "b", ".", "i", "o", "/", "s", "t", "o", "r", "y">>,
        title |-> <<"C", "h", "a", "t", "b", "o", "t", "s", " ", "f", "o", "r", " ", "S", "M", "B", "s">>,
        snippet |-> <<>>],
       [url |-> <<"https://", "W", "W", "W", ".", "B", ".", "I", "O", "/", "g", "u", "i", "d", "e">>,
        title |-> <<"C", "h", "a", "t", "b", "o", "t", "s", " ", "f", "o", "r", " ", "S", "M", "B", "s">>,
        snippet |-> <<>>],
       [url |-> <<"https://", "w", "w", "w", ".", "y", "o", "u", "t", "u", "b", "e", ".", "c", "o", "m", "/", "w", "a", "t", "c", "h">>,
        title |-> <<"C", "h", "a", "t", "b", "o", "t", "s", " ", "f", "o", "r", " ", "S", "M", "B", "s">>,
        snippet |-> <<>>],
       [url |-> <<"https://", "m", ".", "y", "o", "u", "t", "u", "b", "e", ".", "c", "o", "m", "/", "v">>,
        title |-> <<"C", "h", "a", "t", "b", "o", "t", "s", " ", "f", "o", "r", " ", "S", "M", "B", "s">>,
        snippet |-> <<>>],
       [url |-> <<"https://", "c", ".", "i", "o", "/", "d", "o", "c", ".", "P", "D", "F", "?", "d", "l", "=", "1">>,
        title |-> <<"C", "h", "a", "t", "b", "o", "t", "s", " ", "f", "o", "r", " ", "S", "M", "B", "s">>,
        snippet |-> <<>>],
       [url |-> <<"https://", "c", ".", "i", "o", "/", "a", ".", "p", "n", "g", "/", "s", "t", "o", "r", "y">>,
        title |-> <<"C", "h", "a", "t", "b", "o", "t", "s", " ", "f", "o", "r", " ", "S", "M", "B", "s">>,
        snippet |-> <<>>],
       [url |-> <<"https://", "n", "e", "t", "f", "l", "i", "x", ".", "c", "o", "m", "/", "b", "l", "o", "g">>,
        title |-> <<"C", "h", "a", "t", "b", "o", "t", "s", " ", "f", "o", "r", " ", "S", "M", "B", "s">>,
        snippet |-> <<>>],
       [url |-> <<"https://", "t", "u", "b", "e", ".", "c", "o", "m", "/", "a", " ">>,
        title |-> <<"C", "h", "a", "t", "b", "o", "t", "s", " ", "f", "o", "r", " ", "S", "M", "B", "s">>,
        snippet |-> <<>>],
       [url |-> <<"https://", "c", ".", "i", "o", "/", "n", "e", "w", "s">>,
        title |-> <<" ", "C", "h", "a", "t", "b", "o", "t", "s", " ">>,
        snippet |-> <<>>],
       [url |-> <<"c", ".", "i", "o", "/", "p", "a", "g", "e">>,
        title |-> <<"C", "h", "a", "t", "b", "o", "t", "s", " ", "f", "o", "r", " ", "S", "M", "B", "s">>,
        snippet |-> <<>>],
       [url |-> <<"https://", "d", ".", "i", "o", "/", "x">>,
        title |-> <<>>,
        snippet |-> <<"C", "h", "a", "t", "b", "o", "t", "s", " ", "f", "o", "r", " ", "S", "M", "B", "s">>],
       [url |-> <<"https://", "d", ".", "i", "o", "/", "y">>,
        title |-> <<>>,
        snippet |-> <<>>] >>

\* bounds of the harness: number of raw hits, targetCount
MaxHits == 3
MaxTarget == 3

Scheme == "https://"

Unknown == <<"u", "n", "k", "n", "o", "w", "n">>

Untitled == <<"U", "n", "t", "i", "t", "l", "e", "d">>

\* String.prototype.toLowerCase on the characters that occur
LowerChar(c) ==
    CASE c = "W" -> "w" [] c = "B" -> "b" [] c = "I" -> "i" [] c = "O" -> "o"
      [] c = "P" -> "p" [] c = "D" -> "d" [] c = "F" -> "f"
      [] OTHER -> c

toLowerCase(str) == [k \in 1..Len(str) |-> LowerChar(str[k])]

\* String.prototype.trim
RECURSIVE trimStart(_)
trimStart(str) ==
    IF str # <<>> /\ Head(str) = " " THEN trimStart(Tail(str)) ELSE str

RECURSIVE trimEnd(_)
trimEnd(str) ==
    IF str # <<>> /\ str[Len(str)] = " " THEN trimEnd(SubSeq(str, 1, Len(str) - 1))
    ELSE str

trim(str) == trimEnd(trimStart(str))

\* String.prototype.includes
includes(str, sub) ==
    \E k \in 0..(Len(str) - Len(sub)) : SubSeq(str, k + 1, k + Len(sub)) = sub

endsWith(str, sub) ==
    /\ Len(sub) <= Len(str)
    /\ SubSeq(str, Len(str) - Len(sub) + 1, Len(str)) = sub

\* index of the first element of str at or after k that is in the set cs
\* (Len(str) + 1 if there is none)
RECURSIVE IndexOfAny(_, _, _)
IndexOfAny(str, cs, k) ==
    IF k > Len(str) THEN Len(str) + 1
    ELSE IF str[k] \in cs THEN k
    ELSE IndexOfAny(str, cs, k + 1)

\* new URL(url), for the https URLs and scheme-less strings of the catalogue:
\* surrounding whitespace is stripped, the host is lower-cased, the path ends
\* at the query
ParseUrl(url) ==
    LET t == trim(url)
        hostEnd == IndexOfAny(t, {"/", "?"}, 2)
        pathEnd == IndexOfAny(t, {"?"}, 2)
    IN  IF Len(t) >= 2 /\ t[1] = Scheme /\ hostEnd > 2
        THEN [ok |-> TRUE,
              hostname |-> toLowerCase(SubSeq(t, 2, hostEnd - 1)),
              pathname |-> SubSeq(t, hostEnd, pathEnd - 1)]
        ELSE [ok |-> FALSE, hostname |-> <<>>, pathname |-> <<>>]

\* urlObj.hostname.toLowerCase().replace(/^www\./, ''), 'unknown' on a throw
extractDomain(url) ==
    LET u == ParseUrl(url)
    IN  IF ~ u.ok THEN Unknown
        ELSE IF Len(u.hostname) >= 4 /\ SubSeq(u.hostname, 1, 4) = <<"w", "w", "w", ".">>
             THEN SubSeq(u.hostname, 5, Len(u.hostname))
             ELSE u.hostname

isExcludedDomainOneWay(domain) ==
    \E k \in 1..Len(excludedDomains) : includes(excludedDomains[k], domain)

isExcludedDomain(domain) ==
    \E k \in 1..Len(excludedDomains) :
        includes(domain, excludedDomains[k]) \/ includes(excludedDomains[k], domain)

hasExcludedExtension(url) ==
    LET urlLower == toLowerCase(url)
    IN  \E k \in 1..Len(excludedExtensions) : includes(urlLower, excludedExtensions[k])

\* parseSearchResults: one parsed result per raw hit that has a url and a
\* title (the title falls back to the snippet, then to 'Untitled'); idx is
\* the identity of the result object
RECURSIVE parseFrom(_, _)
parseFrom(rawResults, k) ==
    IF k > Len(rawResults) THEN <<>>
    ELSE LET result == rawResults[k]
             url == result.url
             title == IF result.title # <<>> THEN result.title
                      ELSE IF result.snippet # <<>> THEN result.snippet
                      ELSE Untitled
         IN  (IF url = <<>> \/ title = <<>> THEN <<>>
              ELSE << [idx |-> k,
                       url |-> trim(url),
                       title |-> trim(title),
                       snippet |-> trim(result.snippet),
                       domain |-> extractDomain(url)] >>)
             \o parseFrom(rawResults, k + 1)

parseSearchResults(rawResults) == parseFrom(rawResults, 1)

\* the predicate of results.filter(...) in filterValidArticles
KeepsArticle(result) ==
    /\ ~ isExcludedDomain(result.domain)
    /\ ~ hasExcludedExtension(result.url)
    /\ ~ (Len(result.title) < 10)
    /\ ParseUrl(result.url).ok

filterValidArticles(results) == SelectSeq(results, KeepsArticle)

SeqContains(seq, x) == \E k \in 1..Len(seq) : seq[k] = x

\* first pass of selectTopArticles: articles from unused domains
RECURSIVE firstPassAnyDomain(_, _, _, _, _)
firstPassAnyDomain(articles, k, count, selected, usedDomains) ==
    IF k > Len(articles) \/ Len(selected) >= count THEN selected
    ELSE firstPassAnyDomain(articles, k + 1, count, Append(selected, articles[k]),
                            usedDomains \cup {articles[k].domain})

RECURSIVE firstPass(_, _, _, _, _)
firstPass(articles, k, count, selected, usedDomains) ==
    IF k > Len(articles) \/ Len(selected) >= count THEN selected
    ELSE IF articles[k].domain \notin usedDomains
         THEN firstPass(articles, k + 1, count, Append(selected, articles[k]),
                        usedDomains \cup {articles[k].domain})
         ELSE firstPass(articles, k + 1, count, selected, usedDomains)

\* second pass: fill the remaining slots with articles not yet selected
RECURSIVE secondPass(_, _, _, _)
secondPass(articles, k, count, selected) ==
    IF k > Len(articles) \/ Len(selected) >= count THEN selected
    ELSE IF ~ SeqContains(selected, articles[k])
         THEN secondPass(articles, k + 1, count, Append(selected, articles[k]))
         ELSE secondPass(articles, k + 1, count, selected)

selectTopArticles(articles, count) ==
    IF Len(articles) = 0 THEN <<>>
    ELSE LET selected == firstPass(articles, 1, count, <<>>, {})
         IN  IF Len(selected) < count THEN secondPass(articles, 1, count, selected)
             ELSE selected

SearchIdle ==
    /\ q_pc = "idle"
    /\ q_raw = <<>>
    /\ q_target = 0
    /\ q_parsed = <<>>
    /\ q_filtered = <<>>
    /\ q_selected = <<>>

RawLists == UNION { [1..n -> 1..Len(Catalogue)] : n \in 0..MaxHits }

SearchInit ==
    /\ q_pc = "raw"
    /\ \E picks \in RawLists : q_raw = [k \in 1..Len(picks) |-> Catalogue[picks[k]]]
    /\ q_target \in 0..MaxTarget
    /\ q_parsed = <<>>
    /\ q_filtered = <<>>
    /\ q_selected = <<>>

\* findSimilarArticles, step 2
ParseResults ==
    /\ q_pc = "raw"
    /\ q_parsed' = parseSearchResults(q_raw)
    /\ q_pc' = "parsed"
    /\ UNCHANGED <<q_raw, q_target, q_filtered, q_selected>>
    /\ UNCHANGED exceptSearch

\* findSimilarArticles, step 3
FilterResults ==
    /\ q_pc = "parsed"
    /\ q_filtered' = filterValidArticles(q_parsed)
    /\ q_pc' = "filtered"
    /\ UNCHANGED <<q_raw, q_target, q_parsed, q_selected>>
    /\ UNCHANGED exceptSearch

\* findSimilarArticles, step 4
SelectArticles ==
    /\ q_pc = "filtered"
    /\ q_selected' = selectTopArticles(q_filtered, q_target)
    /\ q_pc' = "selected"
    /\ UNCHANGED <<q_raw, q_target, q_parsed, q_filtered>>
    /\ UNCHANGED exceptSearch

SearchNext ==
    \/ ParseResults
    \/ FilterResults
    \/ SelectArticles

(***************************************************************************)
(* Orchestrator: main, executeMultiple, execute, cleanup.                  *)
(*                                                                         *)
(* execute calls this.googleSearcher.searchSimilarArticles, a method the   *)
(* GoogleSearcher class does not define (its method is                     *)
(* findSimilarArticles): the call expression throws a TypeError as soon as *)
(* the fetch has delivered an article, so steps 3 to 5 of execute are      *)
(* never reached and have no action here.                                  *)
(***************************************************************************)
\* bound of the harness on --batch <count>
MaxBatch == 3

\* what the backend answers to GET /articles
FetchOutcomes == {"ok", "empty", "invalid", "http500", "http429", "network"}

ApiError(t) == [name |-> "ApiError", code |-> "API_ERROR", status |-> 0, tag |-> t]
RateLimitError(t) == [name |-> "RateLimitError", code |-> "RATE_LIMIT_ERROR", status |-> 0, tag |-> t]
TypeError(t) == [name |-> "TypeError", code |-> "none", status |-> 0, tag |-> t]

\* the response interceptor of the API client: ErrorHandler.fromHttpResponse
\* (error.response || error, 'Laravel API').  The ApiError's `response` is the
\* response body, which has no `status`
InterceptorError(o) ==
    CASE o = "http500" -> ApiError("HTTP 500")
      [] o = "http429" -> RateLimitError("HTTP 429")
      [] o = "network" -> ApiError("undefined undefined")

\* the catch block of fetchLatestArticle: ApiError and ValidationError pass,
\* anything else is wrapped by ErrorHandler.fromNetworkError
FetchCatch(e) ==
    IF e.name \in {"ApiError", "ValidationError"} THEN e
    ELSE NetworkError(e.tag)

\* config.maxRetries (default)
DefaultMaxRetries == 3

FetchRetriedForever(o) == TRUE

\* whether withRetry, with networkAndServerErrors, would repeat the request
\* of fetchLatestArticle after the backend answer o
FetchRetried(o) ==
    /\ o \in {"http500", "http429", "network"}
    /\ RetryDecision(0, DefaultMaxRetries, "networkAndServerErrors",
                     InterceptorError(o)) = "sleep"

\* fetchLatestArticle for a backend answer o that ends the retry loop: the
\* article ("null" for none) it returns, or the error it throws
fetchLatestArticle(o) ==
    CASE o = "ok" -> [article |-> "article", error |-> NoError]
      [] o = "empty" -> [article |-> "null", error |-> NoError]
      [] o = "invalid" ->
            [article |-> "null", error |-> ValidationError("Article validation failed")]
      [] OTHER -> [article |-> "null", error |-> FetchCatch(InterceptorError(o))]

InitialStats ==
    [originalArticle |-> "null", searchResults |-> 0, scrapedArticles |-> 0,
     enhancedArticle |-> FALSE, publishedArticle |-> FALSE, errors |-> <<>>]

getCurrentStep(stats) ==
    IF stats.originalArticle = "null" THEN "fetching-article"
    ELSE IF stats.searchResults = 0 THEN "searching-articles"
    ELSE IF stats.scrapedArticles = 0 THEN "scraping-content"
    ELSE IF ~ stats.enhancedArticle THEN "enhancing-content"
    ELSE IF ~ stats.publishedArticle THEN "publishing-article"
    ELSE "completed"

\* the code of execute that runs before its first await
EventsBeforeFirstAwaitNoAwait == <<"fetch.start", "search.call">>

EventsBeforeFirstAwait == <<"fetch.start">>

\* try / catch / finally of execute: the paths on which cleanup() runs
RunsCleanupOnSuccessOnly(outcome) == outcome = "summary"

RunsCleanup(outcome) == TRUE

\* the options parseArguments starts from
DefaultOptions ==
    [publishMode |-> "create", skipPublishing |-> FALSE, testMode |-> FALSE,
     continueOnError |-> TRUE]

\* the component tests of testWorkflow, in the order it runs them
TestNames ==
    <<"articleFetcher", "googleSearcher", "contentScraper", "aiEnhancer",
      "articlePublisher">>

\* a component test resolves to true or to false, or it throws (the catch
\* of testWorkflow leaves the entry false)
TestOutcomes == {"true", "false", "throws"}

\* passedTests: Object.values(tests).filter(Boolean).length
passedTests(tests) == Cardinality({k \in 1..Len(tests) : tests[k] = "true"})

allPassedAny(tests) == passedTests(tests) >= 1

\* allPassed: passedTests === totalTests
allPassed(tests) == passedTests(tests) = Len(TestNames)

ContinuesAlways(continueOnError) == TRUE

\* `if (!continueOnError) throw error` in the catch of executeMultiple
ContinuesAfterFailure(continueOnError) == continueOnError

WorkflowIdle ==
    /\ w_pc = "idle"
    /\ w_count = 1
    /\ w_i = 0
    /\ w_stats = InitialStats
    /\ w_fetched = "none"
    /\ w_raised = NoError
    /\ w_outcome = "none"
    /\ w_thrown = NoError
    /\ w_cleaned = FALSE
    /\ w_trace = <<>>
    /\ w_results = 0
    /\ w_failed = <<>>
    /\ w_exit = -1
    /\ w_options = DefaultOptions
    /\ w_started = 0
    /\ w_delays = 0
    /\ w_tests = <<>>

WorkflowInit ==
    /\ w_pc = "main"
    /\ w_count \in 1..MaxBatch
    /\ w_i = 0
    /\ w_stats = InitialStats
    /\ w_fetched = "none"
    /\ w_raised = NoError
    /\ w_outcome = "none"
    /\ w_thrown = NoError
    /\ w_cleaned = FALSE
    /\ w_trace = <<>>
    /\ w_results = 0
    /\ w_failed = <<>>
    /\ w_exit = -1
    /\ w_options \in [publishMode : {"create", "update"}, skipPublishing : BOOLEAN,
                      testMode : BOOLEAN, continueOnError : BOOLEAN]
    /\ w_started = 0
    /\ w_delays = 0
    /\ w_tests = <<>>

\* execute(options) up to its first await: the fetch request is issued
BeginExecute ==
    /\ w_pc' = "fetching"
    /\ w_fetched' = "none"
    /\ w_raised' = NoError
    /\ w_outcome' = "none"
    /\ w_thrown' = NoError
    /\ w_cleaned' = FALSE
    /\ w_trace' = EventsBeforeFirstAwait
    /\ w_started' = w_started + 1

\* main calls execute (batchCount = 1) or executeMultiple (its first run)
ExecuteStart ==
    /\ w_pc = "main"
    /\ ~ w_options.testMode
    /\ BeginExecute
    /\ UNCHANGED <<w_count, w_i, w_stats, w_results, w_failed, w_exit>>
    /\ UNCHANGED <<w_options, w_delays, w_tests>>
    /\ UNCHANGED exceptWorkflow

\* fetchLatestArticle settles with the backend answer o (none of the error
\* answers is retried); execute runs on to its next await, which is the
\* cleanup() of the finally block: a fetch error goes to the catch block at
\* once, a null article throws on originalArticle.title, an article throws on
\* the undefined search method
FetchSettles(o) ==
    /\ w_pc = "fetching"
    /\ ~ FetchRetried(o)
    /\ w_fetched' = o
    /\ LET f == fetchLatestArticle(o)
           stats1 == IF f.error = NoError
                     THEN [w_stats EXCEPT !.originalArticle = f.article]
                     ELSE w_stats
           error == IF f.error # NoError THEN f.error
                    ELSE IF f.article = "null"
                    THEN TypeError("Cannot read properties of null (reading 'title')")
                    ELSE TypeError("this.googleSearcher.searchSimilarArticles is not a function")
           trace1 == IF f.error = NoError /\ f.article # "null"
                     THEN w_trace \o <<"fetch.end", "search.call">>
                     ELSE w_trace \o <<"fetch.end">>
       IN  /\ w_stats' = [stats1 EXCEPT !.errors =
                            Append(@, [error |-> error.tag, step |-> getCurrentStep(stats1)])]
           /\ w_raised' = error
           /\ w_trace' = trace1
           /\ IF RunsCleanup("thrown")
              THEN /\ w_pc' = "cleanup"
                   /\ UNCHANGED <<w_outcome, w_thrown>>
              ELSE /\ w_pc' = "returned"
                   /\ w_outcome' = "thrown"
                   /\ w_thrown' = error
    /\ UNCHANGED <<w_count, w_i, w_cleaned, w_results, w_failed, w_exit>>
    /\ UNCHANGED <<w_options, w_started, w_delays, w_tests>>
    /\ UNCHANGED exceptWorkflow

\* Workflow.cleanup() -> ContentScraper.cleanup(): no browser is open (no
\* scraping has happened), nothing is closed; execute rethrows to its caller
CleanupDone ==
    /\ w_pc = "cleanup"
    /\ b_current = 0
    /\ w_cleaned' = TRUE
    /\ w_pc' = "returned"
    /\ w_outcome' = "thrown"
    /\ w_thrown' = w_raised
    /\ UNCHANGED <<w_count, w_i, w_stats, w_fetched, w_raised, w_trace, w_results,
                   w_failed, w_exit>>
    /\ UNCHANGED <<w_options, w_started, w_delays, w_tests>>
    /\ UNCHANGED exceptWorkflow

\* the caller of execute gets the rejection: main's catch exits with 1; the
\* catch of executeMultiple records it and either rethrows it (to main's
\* catch) or goes on with the next run, without a delay, or returns, after
\* which main ends with status 0.  main itself passes the options of
\* parseArguments, which leave continueOnError at its default
CallerCatches ==
    /\ w_pc = "returned"
    /\ w_outcome = "thrown"
    /\ IF w_count = 1
       THEN /\ w_pc' = "exited"
            /\ w_exit' = 1
            /\ UNCHANGED <<w_i, w_failed, w_fetched, w_raised, w_outcome, w_thrown,
                           w_cleaned, w_trace, w_started>>
       ELSE /\ w_failed' = Append(w_failed, w_i + 1)
            /\ IF ~ ContinuesAfterFailure(w_options.continueOnError)
               THEN /\ w_pc' = "exited"
                    /\ w_exit' = 1
                    /\ UNCHANGED <<w_i, w_fetched, w_raised, w_outcome, w_thrown,
                                   w_cleaned, w_trace, w_started>>
               ELSE /\ w_i' = w_i + 1
                    /\ IF w_i + 1 < w_count
                       THEN /\ BeginExecute
                            /\ UNCHANGED w_exit
                       ELSE /\ w_pc' = "exited"
                            /\ w_exit' = 0
                            /\ UNCHANGED <<w_fetched, w_raised, w_outcome, w_thrown,
                                           w_cleaned, w_trace, w_started>>
    /\ UNCHANGED <<w_count, w_stats, w_results>>
    /\ UNCHANGED <<w_options, w_delays, w_tests>>
    /\ UNCHANGED exceptWorkflow

WorkflowFrame ==
    UNCHANGED <<w_count, w_i, w_stats, w_fetched, w_raised, w_outcome, w_thrown,
                w_cleaned, w_trace, w_results, w_failed, w_options, w_started,
                w_delays>>

\* main in test mode: testWorkflow runs the next component test, which
\* settles with r
ComponentTestSettles(r) ==
    /\ w_pc = "main"
    /\ w_options.testMode
    /\ Len(w_tests) < Len(TestNames)
    /\ w_tests' = Append(w_tests, r)
    /\ UNCHANGED <<w_pc, w_exit>>
    /\ WorkflowFrame
    /\ UNCHANGED exceptWorkflow

\* testWorkflow returns and main exits on testResults.allPassed
SelfTestExit ==
    /\ w_pc = "main"
    /\ w_options.testMode
    /\ Len(w_tests) = Len(TestNames)
    /\ w_pc' = "exited"
    /\ w_exit' = IF allPassed(w_tests) THEN 0 ELSE 1
    /\ UNCHANGED w_tests
    /\ WorkflowFrame
    /\ UNCHANGED exceptWorkflow

WorkflowNext ==
    \/ ExecuteStart
    \/ \E o \in FetchOutcomes : FetchSettles(o)
    \/ CleanupDone
    \/ CallerCatches
    \/ \E r \in TestOutcomes : ComponentTestSettles(r)
    \/ SelfTestExit


(***************************************************************************)
(* GoogleSearcher.findSimilarArticles: searchGoogle (performGoogleSearch   *)
(* under withRetry), then parse, filter, select and validate.              *)
(***************************************************************************)
\* searchGoogle's maxRetries
SearchMaxRetries == 2

\* what the search library does on a call: it resolves with an array of hits
\* ("hits"), resolves with something that is not an array ("notarray"), or
\* rejects with an error
ProviderFailures == {"blocked", "captcha", "timeout", "reset", "other"}

\* the rejection of the search library for a failure: the keywords its
\* message contains and its `code`
ProviderError(o) ==
    CASE o = "blocked" -> [words |-> {"blocked"}, code |-> "none"]
      [] o = "captcha" -> [words |-> {"captcha"}, code |-> "none"]
      [] o = "timeout" -> [words |-> {"timeout"}, code |-> "ETIMEDOUT"]
      [] o = "reset" -> [words |-> {}, code |-> "ECONNRESET"]
      [] o = "other" -> [words |-> {}, code |-> "none"]
      [] o = "notarray" -> [words |-> {}, code |-> "VALIDATION_ERROR"]

\* new NetworkError(message, null, code): AppError's code is NETWORK_ERROR,
\* the third argument becomes networkCode
SearchNetworkError(t, networkCode) ==
    [name |-> "NetworkError", code |-> "NETWORK_ERROR", status |-> 0, tag |-> t,
     networkCode |-> networkCode]

\* the catch block of performGoogleSearch (it also catches the
\* ValidationError thrown for a result that is not an array)
performGoogleSearchCatch(error) ==
    IF "blocked" \in error.words \/ "captcha" \in error.words
    THEN SearchNetworkError("Google search blocked", "BLOCKED")
    ELSE IF "timeout" \in error.words
    THEN SearchNetworkError("Google search timed out", "TIMEOUT")
    ELSE SearchNetworkError("Google search failed", error.code)

\* validateSearchResults(...).isValid
validateSearchResults(results) ==
    \A k \in 1..Len(results) :
        /\ results[k].url # <<>> /\ ParseUrl(results[k].url).ok
        /\ results[k].title # <<>> /\ trim(results[k].title) # <<>>

\* the catch block of findSimilarArticles: the errors answered by []
DegradesToEmptyNever(error) == FALSE

DegradesToEmpty(error) ==
    error.name = "NetworkError" /\ error.networkCode = "BLOCKED"

\* findSimilarArticles from the point where searchGoogle has returned
\* rawResults (no await follows)
AfterSearch(rawResults, targetCount) ==
    IF Len(rawResults) = 0 THEN [kind |-> "list", articles |-> <<>>]
    ELSE LET validArticles == filterValidArticles(parseSearchResults(rawResults))
             selectedArticles == selectTopArticles(validArticles, targetCount)
         IN  IF Len(validArticles) = 0 THEN [kind |-> "list", articles |-> <<>>]
             ELSE IF ~ validateSearchResults(selectedArticles)
             THEN [kind |-> "error",
                   error |-> ValidationError("Selected articles failed validation")]
             ELSE [kind |-> "list", articles |-> selectedArticles]

FindIdle ==
    /\ f_pc = "idle"
    /\ f_target = 0
    /\ f_attempt = 0
    /\ f_calls = 0
    /\ f_answer = "none"
    /\ f_out = [kind |-> "none"]

FindInit ==
    /\ f_pc = "searching"
    /\ f_target \in 1..MaxTarget
    /\ f_attempt = 0
    /\ f_calls = 0
    /\ f_answer = "none"
    /\ f_out = [kind |-> "none"]

\* the search library resolves with the hits `picks` of the catalogue
SearchAnswersHits(picks) ==
    /\ f_pc = "searching"
    /\ f_calls' = f_calls + 1
    /\ f_answer' = "hits"
    /\ LET out == AfterSearch([k \in 1..Len(picks) |-> Catalogue[picks[k]]], f_target)
       IN  /\ f_out' = out
           /\ f_pc' = IF out.kind = "list" THEN "returned" ELSE "thrown"
    /\ UNCHANGED <<f_target, f_attempt>>
    /\ UNCHANGED exceptFind

\* the search library fails with o: performGoogleSearch throws and withRetry
\* decides; on a retry the backoff sleep elapses and the loop calls again,
\* otherwise what withRetry rethrows reaches the catch block of
\* findSimilarArticles
SearchAnswersFailure(o) ==
    /\ f_pc = "searching"
    /\ f_calls' = f_calls + 1
    /\ f_answer' = o
    /\ LET error == performGoogleSearchCatch(ProviderError(o))
           d == RetryDecision(f_attempt, SearchMaxRetries, "networkAndServerErrors", error)
       IN  IF d = "sleep"
           THEN /\ f_attempt' = f_attempt + 1
                /\ UNCHANGED <<f_pc, f_out>>
           ELSE /\ UNCHANGED f_attempt
                /\ IF DegradesToEmpty(error)
                   THEN /\ f_pc' = "returned"
                        /\ f_out' = [kind |-> "list", articles |-> <<>>]
                   ELSE /\ f_pc' = "thrown"
                        /\ f_out' = [kind |-> "error", error |-> error]
    /\ UNCHANGED f_target
    /\ UNCHANGED exceptFind

FindNext ==
    \/ \E picks \in RawLists : SearchAnswersHits(picks)
    \/ \E o \in ProviderFailures \cup {"notarray"} : SearchAnswersFailure(o)


(***************************************************************************)
(* AIEnhancer.enhanceArticle: the completion call under withRetry, then    *)
(* title extraction, cleaning, the references section and validation.      *)
(*                                                                         *)
(* A text is described by what the code looks at: its length in            *)
(* characters and whether it contains the word "References" (as a heading  *)
(* of its own, or only inside a sentence).                                 *)
(***************************************************************************)
\* bound of the harness on referenceArticles.length
MaxRefs == 2

\* validateEnhancedArticle's minimum content length
MinEnhancedLength == 500

\* the reference articles the harness supplies: lengths of title, url, domain
RefCatalogue ==
    << [id |-> 1, title |-> 12, url |-> 20, domain |-> 8],
       [id |-> 2, title |-> 5, url |-> 14, domain |-> 4] >>

RefLists == UNION { [1..n -> 1..Len(RefCatalogue)] : n \in 0..MaxRefs }

\* the completions the endpoint may return: the length of a leading
\* "# Title" line with its line break (0 if there is none), the length of
\* the rest once cleaned, how the rest mentions References, and whether the
\* rest has a heading line (#, ## or ###) other than a References heading
BodyLengths == {40, 470, 499, 500, 900}

Completions ==
    [titleLine : {0, 20}, body : BodyLengths, mention : {"none", "heading", "prose"},
     headings : BOOLEAN]

NoText == [titleLine |-> 0, body |-> 0, mention |-> "none", headings |-> FALSE]

Answer(kind, status, code, text) ==
    [kind |-> kind, status |-> status, code |-> code, text |-> text]

NoAnswer == Answer("none", 0, "none", NoText)

\* what the completion endpoint may do on a request
LlmAnswers ==
    { Answer("completion", 200, "none", c) : c \in Completions }
    \cup { Answer("nochoices", 200, "none", NoText), Answer("empty", 200, "none", NoText) }
    \cup { Answer("http", st, "none", NoText) : st \in {400, 401, 429, 500} }
    \cup { Answer("net", 0, c, NoText) : c \in {"ECONNREFUSED", "ETIMEDOUT", "ECONNRESET"} }

AIProcessingError(t) ==
    [name |-> "AIProcessingError", code |-> "AI_PROCESSING_ERROR", status |-> 0, tag |-> t]

\* callGroqAPI for an answer of the endpoint: the content it returns or the
\* error it throws
callGroqAPI(a) ==
    CASE a.kind = "completion" -> [error |-> NoError, content |-> a.text]
      [] a.kind = "nochoices" ->
            [error |-> AIProcessingError("Invalid response from Groq API"), content |-> NoText]
      [] a.kind = "empty" ->
            [error |-> AIProcessingError("Empty response from Groq API"), content |-> NoText]
      [] a.kind = "http" ->
            [error |-> IF a.status = 401
                       THEN AIProcessingError("Groq API authentication failed - check API key")
                       ELSE IF a.status = 429
                       THEN AIProcessingError("Groq API rate limit exceeded")
                       ELSE IF a.status = 400
                       THEN AIProcessingError("Groq API request error")
                       ELSE AIProcessingError("Groq API error"),
             content |-> NoText]
      [] a.kind = "net" ->
            [error |-> IF a.code = "ECONNREFUSED"
                       THEN AIProcessingError("Cannot connect to Groq API - check network connectivity")
                       ELSE IF a.code = "ETIMEDOUT"
                       THEN AIProcessingError("Groq API request timeout")
                       ELSE AxiosNetError(a.code),
             content |-> NoText]

\* the retry predicate of the completion call: enhanceArticle passes no
\* shouldRetry option, withRetry's default is () => true
EnhanceShouldRetry == "always"

\* extractTitle(content) || originalArticle.title
EnhancedTitle(text) == IF text.titleLine > 0 THEN "extracted" ELSE "original"

\* cleanEnhancedContent: the leading title line is removed
cleanEnhancedContent(text) ==
    [len |-> text.body, mention |-> text.mention, generated |-> FALSE, listed |-> <<>>,
     headings |-> text.headings]

\* length of `- [${ref.title}](${ref.url}) - ${ref.domain}`
RefLineLength(ref) == ref.title + ref.url + ref.domain + 9

RECURSIVE SumRefLines(_, _)
SumRefLines(refs, k) ==
    IF k > Len(refs) THEN 0 ELSE RefLineLength(refs[k]) + SumRefLines(refs, k + 1)

\* length of generateReferencesSection(references):
\* `## References\n\n` and the lines joined by `\n`
ReferencesSectionLength(refs) ==
    IF Len(refs) = 0 THEN 0 ELSE 15 + SumRefLines(refs, 1) + (Len(refs) - 1)

\* content.includes('References')
IncludesReferences(content) == content.mention # "none"

\* "Add references section if not present"
WithReferences(content, refs) ==
    IF ~ IncludesReferences(content) /\ Len(refs) > 0
    THEN [len |-> content.len + 2 + ReferencesSectionLength(refs),
          mention |-> "heading", generated |-> TRUE, listed |-> refs,
          headings |-> content.headings]
    ELSE content

\* validateEnhancedArticle(...).isValid, for an article whose title and
\* metadata enhanceArticle has filled in
validateEnhancedArticle(article) ==
    /\ article.title # ""
    /\ ~ (article.content.len < MinEnhancedLength)
    /\ IncludesReferences(article.content)

\* config.minContentLength and config.maxContentLength (defaults)
PublishMinContentLength == 500

PublishMaxContentLength == 50000

\* /^#{1,3}\s+.+$/m.test(article.content): a "## References" line is a heading
hasHeadings(content) == content.headings \/ content.mention = "heading"

\* ArticlePublisher.validateArticleForPublishing: TRUE when it does not throw
validateArticleForPublishing(article) ==
    /\ validateEnhancedArticle(article)
    /\ ~ (article.content.len < PublishMinContentLength)
    /\ ~ (article.content.len > PublishMaxContentLength)
    /\ hasHeadings(article.content)
    /\ Len(article.references) > 0 => IncludesReferences(article.content)

\* enhanceArticle from the point where withRetry has returned the completion
\* (no await follows)
AfterCompletion(text, refs) ==
    LET enhancedArticle ==
            [title |-> EnhancedTitle(text),
             content |-> WithReferences(cleanEnhancedContent(text), refs),
             references |-> refs]
    IN  IF ~ validateEnhancedArticle(enhancedArticle)
        THEN [kind |-> "error",
              error |-> ValidationError("Enhanced article validation failed")]
        ELSE [kind |-> "article", article |-> enhancedArticle]

\* the outer catch block of enhanceArticle
EnhanceCatch(error) ==
    IF error.name \in {"AIProcessingError", "ValidationError"} THEN error
    ELSE AIProcessingError("AI enhancement failed")

EnhanceIdle ==
    /\ e_pc = "idle"
    /\ e_refs = <<>>
    /\ e_attempt = 0
    /\ e_calls = 0
    /\ e_answer = NoAnswer
    /\ e_seen401 = FALSE
    /\ e_out = [kind |-> "none"]

EnhanceInit ==
    /\ e_pc = "calling"
    /\ \E picks \in RefLists : e_refs = [k \in 1..Len(picks) |-> RefCatalogue[picks[k]]]
    /\ e_attempt = 0
    /\ e_calls = 0
    /\ e_answer = NoAnswer
    /\ e_seen401 = FALSE
    /\ e_out = [kind |-> "none"]

\* the completion endpoint answers a: callGroqAPI returns or throws, withRetry
\* decides (on a retry the backoff sleep elapses and the loop calls again),
\* and enhanceArticle runs to its end
CompletionAnswers(a) ==
    /\ e_pc = "calling"
    /\ e_calls' = e_calls + 1
    /\ e_answer' = a
    /\ e_seen401' = (e_seen401 \/ (a.kind = "http" /\ a.status = 401))
    /\ LET r == callGroqAPI(a)
           d == RetryDecision(e_attempt, DefaultMaxRetries, EnhanceShouldRetry, r.error)
       IN  IF r.error = NoError
           THEN LET out == AfterCompletion(r.content, e_refs)
                IN  /\ e_out' = out
                    /\ e_pc' = IF out.kind = "article" THEN "returned" ELSE "thrown"
                    /\ UNCHANGED e_attempt
           ELSE IF d = "sleep"
           THEN /\ e_attempt' = e_attempt + 1
                /\ UNCHANGED <<e_pc, e_out>>
           ELSE /\ e_pc' = "thrown"
                /\ e_out' = [kind |-> "error", error |-> EnhanceCatch(r.error)]
                /\ UNCHANGED e_attempt
    /\ UNCHANGED e_refs
    /\ UNCHANGED exceptEnhance

EnhanceNext == \E a \in LlmAnswers : CompletionAnswers(a)


(***************************************************************************)
(* The backend gateway: fetchLatestArticle and fetchArticleById            *)
(* (ArticleFetcher, whose axios client has a response interceptor),        *)
(* publishArticle and updateArticle (ArticlePublisher).  Each sends its    *)
(* request under withRetry with networkAndServerErrors and the default     *)
(* maxRetries.                                                             *)
(***************************************************************************)
GatewayOps == {"fetchLatest", "fetchById", "publish", "update"}

\* what the backend may do on a request: a 2xx answer with valid data, a 2xx
\* answer without the expected data (no article list, no id), an HTTP error
\* status, or a connection failure with a node error code
BackendAnswers ==
    { Answer("ok", 200, "none", NoText), Answer("malformed", 200, "none", NoText) }
    \cup { Answer("http", st, "none", NoText) : st \in {401, 404, 422, 429, 500, 503} }
    \cup { Answer("net", 0, c, NoText) : c \in {"ECONNRESET", "ECONNREFUSED", "ETIMEDOUT"} }

\* ErrorHandler.fromHttpResponse(error.response || error, 'Laravel API'), the
\* rejection of the fetcher's response interceptor
fromHttpResponse(a) ==
    IF a.kind = "http" /\ a.status = 429 THEN RateLimitError("HTTP 429")
    ELSE IF a.kind = "http" THEN ApiError("HTTP error")
    ELSE ApiError("undefined undefined")

\* the catch block of callPublishAPI
callPublishAPICatch(a) ==
    IF a.kind = "http"
    THEN IF a.status = 401 THEN ApiError("Laravel API authentication failed - check API key")
         ELSE IF a.status = 422
         THEN ValidationError("Laravel API validation failed: field details")
         ELSE IF a.status = 429 THEN ApiError("Laravel API rate limit exceeded")
         ELSE IF a.status >= 500 THEN ApiError("Laravel API server error")
         ELSE ApiError("Laravel API error")
    ELSE IF a.code = "ECONNREFUSED" THEN ApiError("Cannot connect to Laravel API")
    ELSE IF a.code = "ETIMEDOUT" THEN ApiError("Laravel API request timeout")
    ELSE AxiosNetError(a.code)

\* the error with which the function handed to withRetry rejects (NoError
\* when it resolves)
RequestError(op, a) ==
    CASE a.kind = "ok" -> NoError
      [] a.kind = "malformed" ->
            IF op = "publish"
            THEN ApiError("Invalid response from Laravel API - missing article ID")
            ELSE NoError
      [] op \in {"fetchLatest", "fetchById"} -> fromHttpResponse(a)
      [] op = "publish" -> callPublishAPICatch(a)
      [] op = "update" ->
            IF a.kind = "http" THEN AxiosHttpError(a.status) ELSE AxiosNetError(a.code)

\* the catch block of the gateway method: what the caller receives
GatewayCatch(op, error) ==
    CASE op \in {"fetchLatest", "fetchById"} -> FetchCatch(error)
      [] op = "publish" ->
            IF error.name \in {"ApiError", "ValidationError"} THEN error
            ELSE ApiError("Publishing failed")
      [] op = "update" -> ApiError("Update failed")

\* the gateway method from the point where withRetry has returned the
\* response: the fetches check the format of the body
AfterResponse(op, a) ==
    IF a.kind = "malformed" /\ op \in {"fetchLatest", "fetchById"}
    THEN [kind |-> "error",
          error |-> GatewayCatch(op, ApiError("Unexpected API response format"))]
    ELSE [kind |-> "result"]

GatewayIdle ==
    /\ p_pc = "idle"
    /\ p_op = "none"
    /\ p_attempt = 0
    /\ p_calls = 0
    /\ p_answer = NoAnswer
    /\ p_out = [kind |-> "none"]

GatewayInit ==
    /\ p_pc = "calling"
    /\ p_op \in GatewayOps
    /\ p_attempt = 0
    /\ p_calls = 0
    /\ p_answer = NoAnswer
    /\ p_out = [kind |-> "none"]

\* the backend answers a to the request: on success the method returns; on a
\* failure withRetry decides (on a retry the backoff sleep elapses and the
\* loop sends the request again) and the method's catch block maps what
\* withRetry rethrows
BackendResponds(a) ==
    /\ p_pc = "calling"
    /\ p_calls' = p_calls + 1
    /\ p_answer' = a
    /\ IF RequestError(p_op, a) = NoError
       THEN /\ p_out' = AfterResponse(p_op, a)
            /\ p_pc' = IF AfterResponse(p_op, a).kind = "result" THEN "returned"
                       ELSE "thrown"
            /\ UNCHANGED p_attempt
       ELSE LET error == RequestError(p_op, a)
                d == RetryDecision(p_attempt, DefaultMaxRetries,
                                   "networkAndServerErrors", error)
            IN  IF d = "sleep"
                THEN /\ p_attempt' = p_attempt + 1
                     /\ UNCHANGED <<p_pc, p_out>>
                ELSE /\ p_pc' = "thrown"
                     /\ p_out' = [kind |-> "error", error |-> GatewayCatch(p_op, error)]
                     /\ UNCHANGED p_attempt
    /\ UNCHANGED p_op
    /\ UNCHANGED exceptGateway

GatewayNext == \E a \in BackendAnswers : BackendResponds(a)

(***************************************************************************)
(* ContentScraper: what one extraction returns.  A text is a sequence of   *)
(* runs, each a stretch of whitespace or of other characters with its      *)
(* length; titles and URLs are character sequences as in the searcher.     *)
(***************************************************************************)
Ws(n) == [ws |-> TRUE, n |-> n]

Chars(n) == [ws |-> FALSE, n |-> n]

\* String.prototype.length of a text
RECURSIVE TextLength(_)
TextLength(text) ==
    IF text = <<>> THEN 0 ELSE Head(text).n + TextLength(Tail(text))

\* String.prototype.trim of a text
RECURSIVE trimTextStart(_)
trimTextStart(text) ==
    IF text # <<>> /\ Head(text).ws THEN trimTextStart(Tail(text)) ELSE text

RECURSIVE trimTextEnd(_)
trimTextEnd(text) ==
    IF text # <<>> /\ text[Len(text)].ws
    THEN trimTextEnd(SubSeq(text, 1, Len(text) - 1))
    ELSE text

trimText(text) == trimTextEnd(trimTextStart(text))

\* .replace(/\s+/g, ' '): every maximal stretch of whitespace becomes one
\* space; afterWs says that the previous run was whitespace too
RECURSIVE collapseWhitespace(_, _)
collapseWhitespace(text, afterWs) ==
    IF text = <<>> THEN <<>>
    ELSE IF Head(text).ws
         THEN (IF afterWs THEN <<>> ELSE <<Ws(1)>>)
              \o collapseWhitespace(Tail(text), TRUE)
         ELSE <<Head(text)>> \o collapseWhitespace(Tail(text), FALSE)

\* .substring(0, max)
RECURSIVE substring(_, _)
substring(text, max) ==
    IF text = <<>> \/ max <= 0 THEN <<>>
    ELSE IF Head(text).n <= max
         THEN <<Head(text)>> \o substring(Tail(text), max - Head(text).n)
         ELSE <<[Head(text) EXCEPT !.n = max]>>

\* cleanContent: collapse whitespace, trim, cut at config.maxContentLength
\* (after the first replace no newline is left for the second one to match)
cleanContent(content, max) ==
    substring(trimText(collapseWhitespace(content, FALSE)), max)

\* the length a content element's text must exceed to end the selector loop
SubstantialLength == 200

\* the least trimmed length validateScrapedContent accepts
MinScrapedLength == 100

\* the title loop: the trimmed text of the first title element that has any
RECURSIVE FoundTitle(_)
FoundTitle(titles) ==
    IF titles = <<>> THEN <<>>
    ELSE IF trim(Head(titles)) # <<>> THEN trim(Head(titles))
    ELSE FoundTitle(Tail(titles))

\* the content loop: the trimmed text of the first content element longer
\* than 200 characters, else of the last content element, else ''
RECURSIVE FoundContent(_, _)
FoundContent(blocks, content) ==
    IF blocks = <<>> THEN content
    ELSE LET c == trimText(Head(blocks))
         IN  IF TextLength(c) > SubstantialLength THEN c
             ELSE FoundContent(Tail(blocks), c)

\* paragraphs.join('\n\n') of the trimmed paragraph texts
RECURSIVE JoinParagraphs(_)
JoinParagraphs(paragraphs) ==
    IF paragraphs = <<>> THEN <<>>
    ELSE IF Len(paragraphs) = 1 THEN trimText(Head(paragraphs))
    ELSE trimText(Head(paragraphs)) \o <<Ws(2)>> \o JoinParagraphs(Tail(paragraphs))

\* `title || 'Untitled'`
TitleOrUntitled(title) == IF title = <<>> THEN Untitled ELSE title

\* extractContent($, url): the static strategy's content object
extractContent(page, url, max) ==
    LET found == FoundContent(page.blocks, <<>>)
        content == IF TextLength(found) < SubstantialLength
                   THEN JoinParagraphs(page.paragraphs)
                   ELSE found
    IN  [url |-> url,
         title |-> TitleOrUntitled(FoundTitle(page.titles)),
         content |-> cleanContent(content, max),
         domain |-> extractDomain(url),
         method |-> StaticMethod]

\* the content object scrapeWithPuppeteer builds from page.evaluate's result
\* (no paragraph fallback there)
evaluateContent(page, url, max) ==
    [url |-> url,
     title |-> TitleOrUntitled(FoundTitle(page.titles)),
     content |-> cleanContent(FoundContent(page.blocks, <<>>), max),
     domain |-> extractDomain(url),
     method |-> RenderedMethod]

validateScrapedContentNoLength(content) ==
    /\ trim(content.title) # <<>>
    /\ ParseUrl(content.url).ok
    /\ trim(content.domain) # <<>>

\* validateScrapedContent(content).isValid
validateScrapedContent(content) ==
    /\ trim(content.title) # <<>>
    /\ content.content # <<>>
    /\ TextLength(trimText(content.content)) >= MinScrapedLength
    /\ ParseUrl(content.url).ok
    /\ trim(content.domain) # <<>>

\* the pages a load can deliver: the texts of the elements the title
\* selectors and the content selectors match, in selector order, and of the
\* <p> elements
PageTitles ==
    { <<>>,
      << <<" ">> >>,
      << <<" ", " ">>, <<" ", "G", "u", "i", "d", "e", " ">> >> }

PageBlocks ==
    { <<>>,
      << <<Chars(40)>> >>,
      << <<Ws(3), Chars(99), Ws(2)>> >>,
      << <<Chars(120), Ws(4), Chars(100)>>, <<Chars(300)>> >>,
      << <<Chars(30)>>, <<Chars(99), Ws(1), Chars(300)>> >>,
      << <<Chars(60000)>>, <<Chars(10)>> >>,
      << <<Chars(250)>>, <<Chars(20)>> >>,
      << <<Chars(150), Ws(50), Chars(1)>>, <<Chars(20)>> >> }

PageParagraphs ==
    { <<>>,
      << <<Chars(60), Ws(1)>>, <<Ws(2), Chars(39)>> >>,
      << <<Chars(50)>>, <<>>, <<Chars(47)>> >>,
      << <<Chars(700)>> >> }

Pages == [titles : PageTitles, blocks : PageBlocks, paragraphs : PageParagraphs]

NoPage == [titles |-> <<>>, blocks |-> <<>>, paragraphs |-> <<>>]

\* the url arguments: two that `new URL` accepts and one it rejects
ExtractUrls ==
    { <<"https://", "W", "W", "W", ".", "B", ".", "I", "O", "/", "g", "u", "i", "d", "e">>,
      <<"https://", "c", ".", "i", "o", "/", "n", "e", "w", "s">>,
      <<"c", ".", "i", "o", "/", "p", "a", "g", "e">> }

\* the values of config.maxContentLength tried (50000 is the default)
MaxContentLengths == {99, 100, 120, 50000}

\* what a load that delivers no page fails with
LoadFailures == {"403", "404", "410", "500"}

ExtractIdle ==
    /\ x_pc = "idle"
    /\ x_url = <<>>
    /\ x_max = 0
    /\ x_attempt = 0
    /\ x_page = NoPage
    /\ x_out = NoOutcome
    /\ x_staticCalls = 0
    /\ x_staticErr = NoError

\* scrapeArticle(url) has been called and the static strategy is running
ExtractInit ==
    /\ x_pc = "static"
    /\ x_url \in ExtractUrls
    /\ x_max \in MaxContentLengths
    /\ x_attempt = 0
    /\ x_page = NoPage
    /\ x_out = NoOutcome
    /\ x_staticCalls = 0
    /\ x_staticErr = NoError

\* a strategy's call failed with e: retryScraping repeats it, or the strategy
\* is given up (the static one for the rendered one, the rendered one for
\* the ScrapingError of scrapeArticle)
StrategyFailed(e) ==
    IF RetryDecision(x_attempt, ScrapingMaxRetries, "allExceptClientErrors", e) = "sleep"
    THEN /\ x_attempt' = x_attempt + 1
         /\ UNCHANGED <<x_pc, x_out>>
    ELSE /\ x_attempt' = 0
         /\ IF x_pc = "static"
            THEN /\ x_pc' = "rendered"
                 /\ UNCHANGED x_out
            ELSE /\ x_pc' = "thrown"
                 /\ x_out' = [kind |-> "error", name |-> "ScrapingError", url |-> x_url]

\* a strategy's call built the content object c
StrategyExtracted(c) ==
    IF validateScrapedContent(c)
    THEN /\ x_pc' = "returned"
         /\ x_out' = c
         /\ UNCHANGED x_attempt
    ELSE StrategyFailed(ValidationError("invalid"))

\* scrapeWithCheerio: the GET answers 200 with the page
StaticLoads(page) ==
    /\ x_pc = "static"
    /\ ParseUrl(x_url).ok
    /\ x_page' = page
    /\ StrategyExtracted(extractContent(page, x_url, x_max))
    /\ x_staticCalls' = x_staticCalls + 1
    /\ x_staticErr' = IF validateScrapedContent(extractContent(page, x_url, x_max))
                      THEN x_staticErr
                      ELSE ValidationError("invalid")
    /\ UNCHANGED <<x_url, x_max>>
    /\ UNCHANGED exceptExtract

\* scrapeWithCheerio: the GET fails (axios rejects a url it cannot parse)
StaticLoadFails(o) ==
    /\ x_pc = "static"
    /\ LET e == IF ParseUrl(x_url).ok THEN StaticError(o)
                ELSE PlainError("ERR_INVALID_URL")
       IN  /\ StrategyFailed(e)
           /\ x_staticErr' = e
    /\ x_staticCalls' = x_staticCalls + 1
    /\ UNCHANGED <<x_url, x_max, x_page>>
    /\ UNCHANGED exceptExtract

\* scrapeWithPuppeteer: navigation and page.evaluate succeed on the page
RenderedLoads(page) ==
    /\ x_pc = "rendered"
    /\ ParseUrl(x_url).ok
    /\ x_page' = page
    /\ StrategyExtracted(evaluateContent(page, x_url, x_max))
    /\ UNCHANGED <<x_url, x_max, x_staticCalls, x_staticErr>>
    /\ UNCHANGED exceptExtract

\* scrapeWithPuppeteer: launch, navigation or evaluation fails
RenderedLoadFails ==
    /\ x_pc = "rendered"
    /\ StrategyFailed(PlainError("navigation"))
    /\ UNCHANGED <<x_url, x_max, x_page, x_staticCalls, x_staticErr>>
    /\ UNCHANGED exceptExtract

ExtractNext ==
    \/ \E page \in Pages : StaticLoads(page)
    \/ \E o \in LoadFailures : StaticLoadFails(o)
    \/ \E page \in Pages : RenderedLoads(page)
    \/ RenderedLoadFails

(***************************************************************************)
(* ArticleFetcher.fetchLatestArticle: from the response to the result.     *)
(* A field of an article is absent or has a JSON type; a string field      *)
(* carries its text (runs of whitespace and other characters).             *)
(***************************************************************************)
Absent == [type |-> "absent", text |-> <<>>]

Str(text) == [type |-> "string", text |-> text]

Num == [type |-> "number", text |-> <<>>]

\* a string that `new Date` parses
DateStr == [type |-> "date", text |-> <<Chars(20)>>]

\* the minLength entries of requiredFields
MinTitleLength == 1

MinArticleContentLength == 10

\* one entry of the requiredFields loop: presence, type, trimmed length
RequiredString(value, minLength) ==
    /\ value.type = "string"
    /\ TextLength(trimText(value.text)) >= minLength

\* `article.author && typeof article.author !== 'string'` raises an error
AuthorAccepted(value) ==
    value.type \in {"absent", "string"}

\* `article.created_at && !isValidDateString(article.created_at)` raises an
\* error: the empty string is falsy, another string is not a date
CreatedAtAccepted(value) ==
    \/ value.type \in {"absent", "date"}
    \/ value.type = "string" /\ value.text = <<>>

validateArticleDataTitleContent(article) ==
    /\ article.title.type = "string" /\ article.title.text # <<>>
    /\ article.content.type = "string" /\ article.content.text # <<>>

\* validateArticleData(article).isValid for an article object
validateArticleData(article) ==
    /\ article.id.type = "number"
    /\ RequiredString(article.title, MinTitleLength)
    /\ RequiredString(article.content, MinArticleContentLength)
    /\ AuthorAccepted(article.author)
    /\ CreatedAtAccepted(article.created_at)

\* the article objects the backend may list first
FieldIds == {Absent, Num, Str(<<Chars(2)>>)}

FieldTitles == {Absent, Num, Str(<<>>), Str(<<Ws(2)>>), Str(<<Chars(12)>>)}

FieldContents ==
    {Absent, Num, Str(<<>>), Str(<<Ws(1), Chars(5)>>), Str(<<Ws(3), Chars(9), Ws(3)>>),
     Str(<<Chars(4), Ws(2), Chars(4)>>), Str(<<Chars(800)>>)}

FieldAuthors == {Absent, Num, Str(<<Chars(6)>>)}

FieldDates == {Absent, DateStr, Str(<<Chars(7)>>)}

Articles ==
    [id : FieldIds, title : FieldTitles, content : FieldContents,
     author : FieldAuthors, created_at : FieldDates]

\* response.data: the paginated envelope {data: [...]}, the bare array, or
\* an object that is neither; `first` is articles[0] when there is one
EmptyBodies ==
    { [shape |-> sh, count |-> 0, first |-> Absent] : sh \in {"envelope", "array"} }

Bodies ==
    EmptyBodies
    \cup { [shape |-> sh, count |-> n, first |-> a] :
             sh \in {"envelope", "array"}, n \in {1, 2}, a \in Articles }
    \cup { [shape |-> "other", count |-> 0, first |-> Absent] }

NoBody == [shape |-> "none", count |-> 0, first |-> Absent]

\* fetchLatestArticle after withRetry has returned the response
LatestResult(body) ==
    IF body.shape \notin {"envelope", "array"}
    THEN [kind |-> "error", error |-> ApiError("Unexpected API response format")]
    ELSE IF body.count = 0
    THEN [kind |-> "null"]
    ELSE IF ~ validateArticleData(body.first)
    THEN [kind |-> "error", error |-> ValidationError("Article validation failed")]
    ELSE [kind |-> "article", article |-> body.first]

LatestIdle ==
    /\ l_pc = "idle"
    /\ l_body = NoBody
    /\ l_out = [kind |-> "none"]

LatestInit ==
    /\ l_pc = "calling"
    /\ l_body = NoBody
    /\ l_out = [kind |-> "none"]

\* the backend answers 2xx with the body
LatestResponds(body) ==
    /\ l_pc = "calling"
    /\ l_body' = body
    /\ l_out' = LatestResult(body)
    /\ l_pc' = IF LatestResult(body).kind = "error" THEN "thrown" ELSE "returned"
    /\ UNCHANGED exceptLatest

LatestNext == \E body \in Bodies : LatestResponds(body)

(***************************************************************************)
(* AIEnhancer.enhanceArticle: the title and the content it takes from the  *)
(* completion.  A completion is the sequence of its lines (joined by       *)
(* single line breaks, none after the last); a line has a kind and, as its *)
(* text, its position in the completion.  The kinds: "h1" is `# text`,     *)
(* "h2" is `## text`, "titled" is `Title: text`, "bold" is `**text**`,     *)
(* "text" is any other non-empty line, "blank" is the empty line.          *)
(***************************************************************************)
\* bound of the harness on the number of lines of a completion
MaxLines == 4

LineKinds == {"h1", "h2", "titled", "bold", "text", "blank"}

\* the completions callGroqAPI can return: not empty, not only blank lines
CompletionTexts ==
    { [k \in DOMAIN kinds |-> [kind |-> kinds[k], id |-> k]] :
        kinds \in { ks \in UNION { [1..m -> LineKinds] : m \in 1..MaxLines } :
                      \E j \in DOMAIN ks : ks[j] # "blank" } }

\* titlePatterns of extractTitle, in order: /^#\s+(.+)$/m, /^Title:\s*(.+)$/m,
\* /^\*\*(.+)\*\*$/m
titlePatterns == <<"h1", "titled", "bold">>

\* content.match(pattern) for a pattern with the m flag: the first line of
\* that kind anywhere in the content (0 for null)
matchLine(content, kind) ==
    IF \E k \in 1..Len(content) : content[k].kind = kind
    THEN CHOOSE k \in 1..Len(content) :
             /\ content[k].kind = kind
             /\ \A j \in 1..(k - 1) : content[j].kind # kind
    ELSE 0

\* extractTitle: the captured text (the line's id) of the first pattern that
\* matches, 0 for null
RECURSIVE extractTitleFrom(_, _)
extractTitleFrom(content, p) ==
    IF p > Len(titlePatterns) THEN 0
    ELSE LET m == matchLine(content, titlePatterns[p])
         IN  IF m # 0 THEN content[m].id ELSE extractTitleFrom(content, p + 1)

extractTitle(content) == extractTitleFrom(content, 1)

\* one of the first three replace calls of cleanEnhancedContent: a pattern
\* anchored at the start of the string that takes a line of the given kind,
\* the line break after it and one more line break if there is one
removeLeading(content, kind) ==
    IF Len(content) >= 2 /\ content[1].kind = kind
    THEN IF content[2].kind = "blank" THEN SubSeq(content, 3, Len(content))
         ELSE SubSeq(content, 2, Len(content))
    ELSE content

\* .replace(/\n{3,}/g, '\n\n').replace(/\s+$/gm, '').trim(): the second
\* replace takes, with the whitespace at the end of a line, the line breaks
\* of the blank lines that follow it, so no blank line is left
removeBlankLines(content) == SelectSeq(content, LAMBDA line : line.kind # "blank")

\* cleanEnhancedContent on the lines of the completion
cleanCompletion(content) ==
    removeBlankLines(
        removeLeading(removeLeading(removeLeading(content, "h1"), "titled"), "bold"))

\* originalArticle.title
OriginalTitle == [source |-> "original", line |-> 0]

ExtractedTitle(id) == [source |-> "completion", line |-> id]

CompletionIdle ==
    /\ c_pc = "idle"
    /\ c_text = <<>>
    /\ c_article = [kind |-> "none"]

CompletionInit ==
    /\ c_pc = "calling"
    /\ c_text = <<>>
    /\ c_article = [kind |-> "none"]

\* withRetry returns the completion: enhanceArticle builds the article's
\* title (`this.extractTitle(enhancedContent) || originalArticle.title`) and
\* content (`this.cleanEnhancedContent(enhancedContent)`)
CompletionArrives(enhancedContent) ==
    /\ c_pc = "calling"
    /\ c_text' = enhancedContent
    /\ c_article' =
          [kind |-> "article",
           title |-> IF extractTitle(enhancedContent) # 0
                     THEN ExtractedTitle(extractTitle(enhancedContent))
                     ELSE OriginalTitle,
           content |-> cleanCompletion(enhancedContent)]
    /\ c_pc' = "built"
    /\ UNCHANGED exceptCompletion

CompletionNext == \E enhancedContent \in CompletionTexts : CompletionArrives(enhancedContent)

(***************************************************************************)
(* Specifications                                                          *)
(***************************************************************************)
LaterIdle ==
    FindIdle /\ EnhanceIdle /\ GatewayIdle /\ ExtractIdle /\ LatestIdle /\ CompletionIdle

RetryInit == RetryStart /\ ScrapeIdle /\ SearchIdle /\ WorkflowIdle /\ LaterIdle

SpecRetry == RetryInit /\ [][RetryNext]_vars

ScrapeStart == ScrapeInit /\ RetryIdle /\ SearchIdle /\ WorkflowIdle /\ LaterIdle

SpecScrape == ScrapeStart /\ [][ScrapeNext]_vars

SearchStart == SearchInit /\ RetryIdle /\ ScrapeIdle /\ WorkflowIdle /\ LaterIdle

SpecSelect == SearchStart /\ [][SearchNext]_vars

WorkflowStart == WorkflowInit /\ RetryIdle /\ ScrapeIdle /\ SearchIdle /\ LaterIdle

SpecWorkflow == WorkflowStart /\ [][WorkflowNext]_vars

\* the same program when every pending call settles and every continuation
\* that is ready to run is run by the event loop
SpecWorkflowFair == WorkflowStart /\ [][WorkflowNext]_vars /\ WF_vars(WorkflowNext)

FirstIdle == RetryIdle /\ ScrapeIdle /\ SearchIdle /\ WorkflowIdle

FindStart ==
    /\ FindInit /\ FirstIdle /\ EnhanceIdle /\ GatewayIdle /\ ExtractIdle /\ LatestIdle
    /\ CompletionIdle

SpecSearch == FindStart /\ [][FindNext]_vars

EnhanceStart ==
    /\ EnhanceInit /\ FirstIdle /\ FindIdle /\ GatewayIdle /\ ExtractIdle /\ LatestIdle
    /\ CompletionIdle

SpecEnhance == EnhanceStart /\ [][EnhanceNext]_vars

GatewayStart ==
    /\ GatewayInit /\ FirstIdle /\ FindIdle /\ EnhanceIdle /\ ExtractIdle /\ LatestIdle
    /\ CompletionIdle

SpecGateway == GatewayStart /\ [][GatewayNext]_vars

ExtractStart ==
    /\ ExtractInit /\ FirstIdle /\ FindIdle /\ EnhanceIdle /\ GatewayIdle /\ LatestIdle
    /\ CompletionIdle

SpecExtract == ExtractStart /\ [][ExtractNext]_vars

LatestStart ==
    /\ LatestInit /\ FirstIdle /\ FindIdle /\ EnhanceIdle /\ GatewayIdle /\ ExtractIdle
    /\ CompletionIdle

SpecLatest == LatestStart /\ [][LatestNext]_vars

CompletionStart ==
    /\ CompletionInit /\ FirstIdle /\ FindIdle /\ EnhanceIdle /\ GatewayIdle
    /\ ExtractIdle /\ LatestIdle

SpecCompletion == CompletionStart /\ [][CompletionNext]_vars

(***************************************************************************)
(* Claims about withRetry (SpecRetry)                                      *)
(***************************************************************************)
AllRetryable(errs) ==
    \A k \in 1..Len(errs) : shouldRetry(r_policy.shouldRetry, errs[k])

NoneRetryable(errs) ==
    \A k \in 1..Len(errs) : ~ shouldRetry(r_policy.shouldRetry, errs[k])

GroupOf(u) == (u - 1) \div s_concurrency

ResultUrls == [k \in 1..Len(s_results) |-> s_results[k].url]

Occurrences(seq, x) == Cardinality({k \in 1..Len(seq) : seq[k] = x})

BatchReturned == s_pc \in {"done", "closing_browser", "cleaned"}

C3_SingleSharedBrowser ==
    /\ b_launched <= 1
    /\ (s_pc = "cleaned" => b_open = {})

\* C6: when the batch has returned, `results` has exactly one entry for every
\* URL whose extraction succeeded and none for a URL whose extraction failed,
\* and the entries of an earlier group precede those of a later group.
C6_BatchContainment ==
    BatchReturned =>
        /\ \A u \in 1..s_n : Settled(tasks[u])
        /\ \A u \in 1..s_n :
               Occurrences(ResultUrls, u) = (IF tasks[u].pc = "ok" THEN 1 ELSE 0)
        /\ \A k \in 1..Len(s_results) : s_results[k].url \in 1..s_n
        /\ \A j, k \in 1..Len(s_results) :
               j < k => GroupOf(ResultUrls[j]) <= GroupOf(ResultUrls[k])
        /\ Len(s_results) + Len(s_failed) = s_n

C6_Witness ==
    /\ s_pc = "done"
    /\ s_n = 3
    /\ s_concurrency = 2
    /\ tasks[1].pc = "failed"
    /\ tasks[2].pc = "ok"
    /\ tasks[3].pc = "ok"
    /\ Len(s_results) = 2

\* C7: at most `concurrency` extractions are in flight; an extraction of a
\* later group has not started while one of an earlier group is unsettled;
\* every group after the first starts after an inter-group pause.
C7_BoundedConcurrency ==
    /\ Cardinality({u \in Urls : InFlight(tasks[u])}) <= s_concurrency
    /\ \A u, v \in 1..s_n :
           (GroupOf(v) < GroupOf(u) /\ tasks[u].pc # "pending") => Settled(tasks[v])
    /\ s_groups >= 1 => s_pauses = s_groups - 1

C7_Witness ==
    /\ s_concurrency = 2
    /\ s_groups = 2
    /\ s_pauses = 1
    /\ InFlight(tasks[3])

(***************************************************************************)
(* Claims about search-result filtering and selection (SpecSelect)         *)
(***************************************************************************)
DomainsOf(seq) == {seq[k].domain : k \in 1..Len(seq)}

\* C9: with at least targetCount candidates over at least targetCount
\* domains the selection has exactly targetCount entries of pairwise
\* different domains; with fewer domains than targetCount it has
\* min(targetCount, candidates) entries, no candidate twice, and a candidate
\* of an already selected domain only after every domain has been selected.
C9_DomainDiversity ==
    q_pc = "selected" =>
        LET F == q_filtered
            S == q_selected
            D == DomainsOf(F)
        IN  /\ \A k \in 1..Len(S) : SeqContains(F, S[k])
            /\ (Len(F) >= q_target /\ Cardinality(D) >= q_target) =>
                   /\ Len(S) = q_target
                   /\ \A j, k \in 1..Len(S) : j < k => S[j].domain # S[k].domain
            /\ Cardinality(D) < q_target =>
                   /\ Len(S) = Min(q_target, Len(F))
                   /\ \A j, k \in 1..Len(S) : j < k => S[j] # S[k]
                   /\ \A k \in 1..Len(S) :
                          (\E j \in 1..(k - 1) : S[j].domain = S[k].domain) =>
                              D \subseteq {S[j].domain : j \in 1..(k - 1)}

C9_Witness ==
    /\ q_pc = "selected"
    /\ q_target = 2
    /\ Len(q_filtered) = 3
    /\ q_filtered[1].domain = q_filtered[2].domain
    /\ q_selected = <<q_filtered[1], q_filtered[3]>>

\* a URL whose host is an excluded domain or a subdomain of one
HostMatchesExcluded(url) ==
    LET u == ParseUrl(url)
    IN  /\ u.ok
        /\ \E k \in 1..Len(excludedDomains) :
               \/ u.hostname = excludedDomains[k]
               \/ endsWith(u.hostname, <<".">> \o excludedDomains[k])

\* a URL whose path ends in an excluded file extension
PathEndsInExcludedExtension(url) ==
    LET u == ParseUrl(url)
    IN  /\ u.ok
        /\ \E k \in 1..Len(excludedExtensions) :
               endsWith(toLowerCase(u.pathname), excludedExtensions[k])

MustBeExcluded(url) == HostMatchesExcluded(url) \/ PathEndsInExcludedExtension(url)

\* C10: no result whose host matches an excluded domain or whose path ends in
\* an excluded extension is in the filtered output or among the selected
\* candidates.
C10_FilterExclusion ==
    /\ \A k \in 1..Len(q_filtered) : ~ MustBeExcluded(q_raw[q_filtered[k].idx].url)
    /\ \A k \in 1..Len(q_selected) : ~ MustBeExcluded(q_raw[q_selected[k].idx].url)

C10_Witness ==
    /\ q_pc = "selected"
    /\ Len(q_raw) = 3
    /\ HostMatchesExcluded(q_raw[1].url)
    /\ Len(q_raw[1].title) >= 10
    /\ PathEndsInExcludedExtension(q_raw[2].url)
    /\ Len(q_filtered) = 1
    /\ Len(q_selected) = 1

C5_WorkflowCompletes ==
    (w_pc = "returned" /\ w_fetched = "ok") => w_outcome = "summary"

TracePos(e) ==
    IF \E k \in 1..Len(w_trace) : w_trace[k] = e
    THEN CHOOSE k \in 1..Len(w_trace) : w_trace[k] = e
    ELSE 0

C11_SearchBlockedDegrades ==
    f_answer \in {"blocked", "captcha"} =>
        /\ f_pc = "returned"
        /\ f_out = [kind |-> "list", articles |-> <<>>]

C11_Witness ==
    /\ f_answer = "captcha"
    /\ f_pc = "returned"
    /\ f_calls = 1
    /\ f_out = [kind |-> "list", articles |-> <<>>]

(***************************************************************************)
(* Claims about enhanceArticle (SpecEnhance)                               *)
(***************************************************************************)
EnhanceEnded == e_pc \in {"returned", "thrown"}

\* C12: when the cleaned completion is shorter than the minimum length,
\* enhanceArticle fails with an AI-processing error and returns no article.
C12_ValidationGate ==
    (EnhanceEnded /\ e_answer.kind = "completion"
        /\ cleanEnhancedContent(e_answer.text).len < MinEnhancedLength) =>
        /\ e_pc = "thrown"
        /\ e_out.error.name = "AIProcessingError"

\* C13: an article returned for at least one reference has a References
\* section; when the cleaned completion has no References heading, the
\* generated section listing every supplied reference has been appended.
C13_ReferencesInvariant ==
    (e_pc = "returned" /\ Len(e_refs) >= 1) =>
        /\ e_out.article.content.mention = "heading"
        /\ e_answer.text.mention # "heading" =>
               /\ e_out.article.content.generated
               /\ e_out.article.content.listed = e_refs

\* C14: with no references, a completion of sufficient length that has no
\* References section is returned as a success.
C14_ZeroReferences ==
    (EnhanceEnded /\ e_refs = <<>> /\ e_answer.kind = "completion"
        /\ e_answer.text.body >= MinEnhancedLength /\ e_answer.text.mention = "none") =>
        e_pc = "returned"

\* C15: once the completion endpoint has answered 401, it has been called
\* exactly once and enhanceArticle has failed.
C15_AuthFailureFatal ==
    e_seen401 => (e_calls = 1 /\ e_pc = "thrown")

(***************************************************************************)
(* Claims about the backend gateway (SpecGateway)                          *)
(***************************************************************************)
\* a backend answer the default retry policy is to retry: 5xx, 429, or a
\* connection failure with a retryable network code
Transient(a) ==
    \/ a.kind = "http" /\ (a.status >= 500 \/ a.status = 429)
    \/ a.kind = "net" /\ a.code \in {"ECONNRESET", "ENOTFOUND", "ECONNREFUSED", "ETIMEDOUT"}

\* C16: a 5xx, 429 or retryable connection failure reaches the caller of a
\* gateway call only when the retry budget is exhausted (until then the
\* request is sent again, so a later successful answer is what is returned).
C16_GatewayRetriesTransparently ==
    (p_pc = "thrown" /\ Transient(p_answer)) => p_calls >= DefaultMaxRetries

\* C17: for publish and update, the caller receives a ValidationError
\* carrying the field details for a 422, and errors that tell an
\* authentication failure (401) and a rate limit (429) apart.
C17_PublishErrorMapping ==
    (p_pc = "thrown" /\ p_op \in {"publish", "update"} /\ p_answer.kind = "http") =>
        /\ p_answer.status = 422 =>
               p_out.error = ValidationError("Laravel API validation failed: field details")
        /\ p_answer.status = 401 =>
               p_out.error = ApiError("Laravel API authentication failed - check API key")
        /\ p_answer.status = 429 =>
               p_out.error = ApiError("Laravel API rate limit exceeded")

(***************************************************************************)
(* Claims about publishing in execute (SpecWorkflow)                       *)
(***************************************************************************)
\* number of entries of this run's trace that are the event e
TraceCount(e) == Cardinality({k \in 1..Len(w_trace) : w_trace[k] = e})

\* C18: when a run for a valid source article has ended, an update call was
\* issued only in update mode; in create mode exactly one create call and no
\* update call was issued; with skip-publishing neither call was issued.
C18_OverwriteOnlyOnRequest ==
    (w_pc = "returned" /\ w_fetched = "ok") =>
        /\ w_options.publishMode # "update" => TraceCount("publish.update") = 0
        /\ w_options.skipPublishing =>
               (TraceCount("publish.create") = 0 /\ TraceCount("publish.update") = 0)
        /\ (~ w_options.skipPublishing /\ w_options.publishMode = "create") =>
               (TraceCount("publish.create") = 1 /\ TraceCount("publish.update") = 0)

(***************************************************************************)
(* Claims about a URL that answers 404 (SpecScrape)                        *)
(***************************************************************************)
\* C19: for a URL whose static fetch answered 404, the static strategy raised
\* the not-found ScrapingError and the rendered strategy is never entered.
C19_NotFoundNoFallback ==
    \A u \in Urls :
        tasks[u].cheerioErr = ScrapingError("NOT_FOUND") => tasks[u].renderCalls = 0

(***************************************************************************)
(* Claims about what one extraction returns (SpecExtract)                  *)
(***************************************************************************)
\* C20: every content object scrapeArticle returns, from either strategy, has
\* content of at least 100 characters and at most config.maxContentLength, a
\* non-empty title that is 'Untitled' when the page had none, a URL that
\* parses and a non-empty domain; a page with too little content is never
\* returned.
C20_ExtractionInvariant ==
    x_pc = "returned" =>
        /\ TextLength(x_out.content) >= MinScrapedLength
        /\ TextLength(x_out.content) <= x_max
        /\ x_out.title # <<>>
        /\ FoundTitle(x_page.titles) = <<>> => x_out.title = Untitled
        /\ x_out.url = x_url
        /\ ParseUrl(x_out.url).ok
        /\ x_out.domain # <<>>

\* a page without a title and with more text than the maximum was returned
\* by the rendered strategy, cut to the maximum and titled 'Untitled'
C20_Witness ==
    /\ x_pc = "returned"
    /\ x_out.method = RenderedMethod
    /\ x_out.title = Untitled
    /\ TextLength(x_out.content) = x_max
    /\ TextLength(FoundContent(x_page.blocks, <<>>)) > x_max

(***************************************************************************)
(* Claims about fetchLatestArticle (SpecLatest)                            *)
(***************************************************************************)
LatestEnded == l_pc \in {"returned", "thrown"} /\ l_body.shape \in {"envelope", "array"}

\* title and content are present and not the empty string
TitleAndContentNonEmpty(article) ==
    /\ article.title.type = "string" /\ article.title.text # <<>>
    /\ article.content.type = "string" /\ article.content.text # <<>>

\* id is a number, title and content are strings with at least 1 and 10
\* characters after trimming, author is a string when present, created_at a
\* date when present
PassesSchema(article) ==
    /\ article.id = Num
    /\ article.title.type = "string"
    /\ TextLength(trimText(article.title.text)) >= 1
    /\ article.content.type = "string"
    /\ TextLength(trimText(article.content.text)) >= 10
    /\ article.author.type # "number"
    /\ article.created_at \in {Absent, DateStr}

C22_NoArticleHandled ==
    (w_pc = "returned" /\ w_fetched = "empty") =>
        /\ TraceCount("search.call") = 0
        /\ w_raised.name # "TypeError"

C24_BatchContinuation ==
    (w_pc = "exited" /\ ~ w_options.testMode /\ w_count > 1) =>
        IF w_options.continueOnError
        THEN /\ w_started = w_count
             /\ w_results + Len(w_failed) = w_count
        ELSE /\ Len(w_failed) = 1
             /\ w_started = w_failed[1]
             /\ w_thrown = w_raised
             /\ w_exit = 1

\* a batch of three without continueOnError has ended after its first run
C24_Witness ==
    /\ w_pc = "exited"
    /\ ~ w_options.testMode
    /\ ~ w_options.continueOnError
    /\ w_count = 3
    /\ w_started = 1
    /\ w_failed = <<1>>

\* C25: whenever a run has failed, the step recorded with its error in
\* stats.errors is the stage whose call raised the error: the fetch when
\* fetchLatestArticle did not deliver an article, the search when it did.
C25_CurrentStepIsFailingStage ==
    (w_pc \in {"cleanup", "returned"} /\ w_raised # NoError) =>
        w_stats.errors[Len(w_stats.errors)].step =
            (IF w_fetched = "ok" THEN "searching-articles" ELSE "fetching-article")

DefinitiveClientErrors == {StaticError("403"), StaticError("404"), StaticError("410")}

\* the static strategy of this extraction has given up
StaticGaveUp ==
    \/ x_pc \in {"rendered", "thrown"}
    \/ x_pc = "returned" /\ x_out.method = RenderedMethod

\* C27: a static fetch answered 403, 404 or 410 is never followed by another
\* static attempt, so that the static strategy is attempted exactly once for
\* a URL that answers so; when the static strategy has given up after any
\* other failure, it was attempted as often as the scraping budget allows.
C27_ScrapingRetryPredicate ==
    /\ (x_pc = "static" /\ x_staticErr # NoError) =>
           x_staticErr \notin DefinitiveClientErrors
    /\ (StaticGaveUp /\ x_staticErr \notin DefinitiveClientErrors) =>
           x_staticCalls = ScrapingMaxRetries + 1
    /\ (StaticGaveUp /\ x_staticCalls = 1) =>
           x_staticErr \in (DefinitiveClientErrors \cup {PlainError("ERR_INVALID_URL")})

(***************************************************************************)
(* Claims about the default retry predicate (SpecRetry)                    *)
(***************************************************************************)
\* a connection-reset, DNS-failure, connection-refused or timeout code, a 5xx
\* status or status 429
TransientFailure(error) ==
    \/ error.code \in {"ECONNRESET", "ENOTFOUND", "ECONNREFUSED", "ETIMEDOUT"}
    \/ error.status >= 500
    \/ error.status = 429

\* C28: when withRetry runs without a caller-supplied predicate, it goes on
\* to a retry only after an error with a transient network code, a 5xx status
\* or status 429, and it rethrows before the budget is used up only after
\* an error that is none of these.
C28_DefaultRetryPredicate ==
    r_policy.shouldRetry = DefaultShouldRetry =>
        /\ r_pc = "sleeping" => TransientFailure(r_lastError)
        /\ (r_pc = "thrown" /\ r_attempt < r_policy.maxRetries) =>
               ~ TransientFailure(r_lastError)

(***************************************************************************)
(* Claims about the retries of the web search (SpecSearch)                 *)
(***************************************************************************)
\* C29: a search that has ended in failure with a timeout or a connection
\* reset was attempted twice; a search that was answered "blocked" was
\* attempted once.
C29_SearchRetry ==
    /\ (f_pc = "thrown" /\ f_answer \in {"timeout", "reset"}) => f_calls = 2
    /\ f_answer \in {"blocked", "captcha"} => f_calls = 1

(***************************************************************************)
(* Claims about the delay between the runs of a batch (SpecWorkflow)       *)
(***************************************************************************)
\* C30: in a batch, one inter-run delay has elapsed before every run after
\* the first, whether the run before it succeeded or failed, and none after
\* the last run.
C30_InterRunDelay ==
    (~ w_options.testMode /\ w_count > 1 /\ w_started >= 1) =>
        w_delays = w_started - 1

(***************************************************************************)
(* C31  Backoff delay bound.  The sleep before the k-th retry of withRetry *)
(* (the k-th sleep started, k = 1, 2, ...) lasts at least                  *)
(* min(0.5 * baseDelay * 2^(k-1), maxDelay) and at most                    *)
(* min(baseDelay * 2^(k-1), maxDelay), so never more than maxDelay; and a  *)
(* failed invocation that ends the call (the last attempt, or a            *)
(* non-retryable error) starts no sleep: the number of sleeps is the       *)
(* number of invocations minus one once the call has ended, and the        *)
(* number of invocations while a sleep is running.                         *)
(***************************************************************************)
CappedAt(delay, maxDelay) == IF delay < maxDelay THEN delay ELSE maxDelay

C31_BackoffDelayBound ==
    /\ r_pc = "sleeping" =>
           LET full == r_policy.baseDelay * Pow2(r_sleeps - 1)
           IN  /\ r_delay >= CappedAt(full \div 2, r_policy.maxDelay)
               /\ r_delay <= CappedAt(full, r_policy.maxDelay)
               /\ r_delay <= r_policy.maxDelay
               /\ r_sleeps = r_calls
    /\ r_pc \in {"thrown", "returned"} => r_sleeps = r_calls - 1

\* the third sleep of a call with the large base delay: the jittered delay
\* of 40000 or more is cut to maxDelay
C31_Witness ==
    /\ r_pc = "sleeping"
    /\ r_sleeps = 3
    /\ r_policy.baseDelay = 10 * DefaultRetryDelay
    /\ r_delay = r_policy.maxDelay

(***************************************************************************)
(* C32  Run termination.  When every pending call settles, every call of   *)
(* execute that has started ends: it returns a summary or throws to its    *)
(* caller.  On the way it issues the fetch once and reaches the search     *)
(* call at most once; execute never gets past that call, so the later      *)
(* stages contribute no attempts to a run.                                 *)
(***************************************************************************)
ExecuteRunning == w_pc \in {"fetching", "cleanup"}

ExecuteEnded == w_pc = "returned" /\ w_outcome \in {"summary", "thrown"}

C33_RunIsolation ==
    /\ w_pc = "fetching" => w_stats = InitialStats
    /\ (w_pc = "returned" /\ w_outcome = "thrown") => Len(w_stats.errors) = 1

(***************************************************************************)
(* C34  Enhancer and publisher validation agree.  Every article that       *)
(* enhanceArticle returns passes validateArticleForPublishing (the basic   *)
(* validation, the minimum and maximum length, the headings check and the  *)
(* References check for listed references).                                *)
(***************************************************************************)
C34_EnhancedIsPublishable ==
    (e_pc = "returned" /\ e_out.kind = "article") =>
        validateArticleForPublishing(e_out.article)

C36_StrategiesAgree ==
    x_page # NoPage =>
        LET static == extractContent(x_page, x_url, x_max)
            rendered == evaluateContent(x_page, x_url, x_max)
        IN  /\ static.title = rendered.title
            /\ static.content = rendered.content

(***************************************************************************)
(* C37  Filter exactness.  The output of filterValidArticles is its input  *)
(* without exactly the results whose host matches an excluded domain,      *)
(* whose path ends in an excluded extension, whose title is shorter than   *)
(* 10 characters or whose URL is invalid; the others are kept in order.    *)
(***************************************************************************)
MayBeDropped(result) ==
    \/ HostMatchesExcluded(result.url)
    \/ PathEndsInExcludedExtension(result.url)
    \/ Len(result.title) < 10
    \/ ~ ParseUrl(result.url).ok

MustBeKept(result) == ~ MayBeDropped(result)

C37_FilterExactness ==
    q_pc \in {"filtered", "selected"} => q_filtered = SelectSeq(q_parsed, MustBeKept)

(***************************************************************************)
(* C38  Search-hit normalization.  parseSearchResults turns a raw hit into *)
(* a result exactly when the hit's URL and the hit's title are both        *)
(* non-empty: a hit without a title yields no parsed result, whatever its  *)
(* snippet is, and so is neither filtered nor selected.                    *)
(***************************************************************************)
HasUrlAndTitle(hit) == hit.url # <<>> /\ hit.title # <<>>

C38_HitNormalization ==
    q_pc \in {"parsed", "filtered", "selected"} =>
        /\ \A k \in 1..Len(q_parsed) : HasUrlAndTitle(q_raw[q_parsed[k].idx])
        /\ \A j \in 1..Len(q_raw) :
               HasUrlAndTitle(q_raw[j]) => \E k \in 1..Len(q_parsed) : q_parsed[k].idx = j
        /\ \A k \in 1..Len(q_filtered) : HasUrlAndTitle(q_raw[q_filtered[k].idx])
        /\ \A k \in 1..Len(q_selected) : HasUrlAndTitle(q_raw[q_selected[k].idx])

(***************************************************************************)
(* Claims about the article built from the completion (SpecCompletion)     *)
(***************************************************************************)
\* the kinds of line that count as an echoed title
TitleLineKinds == {"h1", "titled", "bold"}

LeadsWithTitle(content) == content[1].kind \in TitleLineKinds

\* the lines of a completion other than its blank lines
NonBlank(content) == SelectSeq(content, LAMBDA line : line.kind # "blank")

(***************************************************************************)
(* C39  Title extraction from the completion.  The article's title is the  *)
(* text of the completion's leading line when that line is a heading, a    *)
(* "Title:" line or a bold-wrapped line, and the original article's title  *)
(* otherwise, whatever lines follow.                                       *)
(***************************************************************************)
C39_TitleFromLeadingLine ==
    c_pc = "built" =>
        c_article.title = (IF LeadsWithTitle(c_text) THEN ExtractedTitle(c_text[1].id)
                           ELSE OriginalTitle)

(***************************************************************************)
(* C40  Post-processing of the completion.  The content of the article is  *)
(* the completion without its leading line when that line is an echoed     *)
(* title that other lines follow, and the whole completion otherwise:      *)
(* every other non-blank line is kept, in order.                           *)
(***************************************************************************)
C40_RemovesAtMostTheTitleLine ==
    c_pc = "built" =>
        c_article.content =
            (IF LeadsWithTitle(c_text) /\ Len(c_text) >= 2 THEN NonBlank(Tail(c_text))
             ELSE NonBlank(c_text))
====
